---- MODULE Spec2Model ----
(***************************************************************************)
(* Model of the on1builder searcher pipeline:                              *)
(*   - FlashbotsRelay (monitoring/flashbots_relay.py) and the              *)
(*     LiquidationSniper that drives it (engines/liquidation_sniper.py);   *)
(*   - ProfitOptimizer (utils/profit_optimizer.py) and the profit          *)
(*     scorer and StrategySelector of utils/advanced_analytics.py;         *)
(*   - OpportunityDetector (engines/opportunity_detector.py): the store,   *)
(*     the blacklist, start/stop and the detection loop.                   *)
(*                                                                         *)
(* The specifications share the variables: SpecRelay (simulation,          *)
(* submission and the sniper), SpecTracking (the pending map and its       *)
(* clean-up), SpecMonitor (the inclusion polls), SpecStatistics (the       *)
(* relay's counters), SpecProfit (the calls on the optimizer, the scorer   *)
(* and the selector), SpecDetect (the strategy detectors of one cycle),    *)
(* SpecStore (a running detector and its store), SpecSnapshot (the update  *)
(* pass statement by statement), SpecExecution (execution results          *)
(* reported back), SpecDetector (the detector's start and stop) and        *)
(* SpecDetectorFair (the loop task, with the timer's fairness).  Each one  *)
(* moves the variables of its own component and leaves the others at       *)
(* their initial value.                                                    *)
(*                                                                         *)
(* Units.  Ether amounts are integers in units of 1e-5 ETH (EthUnit):      *)
(* 0.01 ETH = 1000.  Gas amounts are in units of 1e5 gas, gas prices in    *)
(* tenths of a gwei, so that gas * price is a cost in EthUnit exactly      *)
(* (1e5 gas * 0.1 gwei = 1e-5 ETH).  The code computes in binary floating  *)
(* point; the model computes the same expressions on these exact           *)
(* quantities.                                                             *)
(***************************************************************************)
EXTENDS Integers, Sequences, FiniteSets, TLC

None == "None"

(***************************************************************************)
(* Bounds of the model.                                                    *)
(***************************************************************************)
MaxRelayClock == 1
MaxSubmissions == 2
MaxAnalyses == 2
MaxBlacklisted == 1
MaxDetected == 3
MaxDetectorTicks == 3
MaxLimit == 2
MaxTasks == 2

\* The largest timeout_blocks of a monitor_bundle_inclusion call.
MaxTimeoutBlocks == 2

\* successful_bundles is followed up to this value.
MaxSuccessful == 2

\* The clock of the bundle tracking is followed for this many steps.
MaxTrackingTicks == 3
MaxExecuted == 2

(***************************************************************************)
(* Program constants.                                                      *)
(***************************************************************************)
BundleTimeout == 12             \* flashbots_relay.py: _bundle_timeout = 12 (s)
SniperMinProfitEth == 1000      \* liquidation_sniper.py: min_profit_eth = 0.01
MinProfitEth == 1000            \* settings.min_profit_eth = 0.01
MinRoiPercentage == 5           \* ProfitOptimizer._min_roi_percentage = 5.0
DefaultGasLimit == 5            \* settings.default_gas_limit (500000 gas)
FallbackGasPrice == 500         \* _analyze_gas_costs fallback: 50 gwei
FallbackGasCostEth == 2000      \* _analyze_gas_costs fallback: 0.02 ETH
EthUnitsPerEth == 100 * 1000    \* 1 ETH in EthUnit
MinConfidenceScore == 60        \* OpportunityDetector._min_confidence_score = 0.6
StaleAfterSeconds == 300        \* _update_detected_opportunities: 5 minutes

VARIABLES
    \* ---- FlashbotsRelay -------------------------------------------------
    session,            \* _session is not None
    pending_bundles,    \* _pending_bundles: bundle hash -> tracking record
    submission_stats,   \* _submission_stats (the three counters)
    relayClock,         \* time.time(), in seconds
    relayReturn,        \* the value the last relay call returned
    sentBundles,        \* history: the bundles POSTed to the relay with
                        \*   eth_sendBundle, each with what was known of it then
    simulatedOk,        \* history: bundles whose simulate_bundle returned
                        \*   success with estimated_profit >= 0
    riskLog,            \* history: the bundles for whose transactions the
                        \*   latest answer of check_risk_controls was is_safe
    \* ---- LiquidationSniper ----------------------------------------------
    active_liquidations,
    \* ---- ProfitOptimizer, the scorer and the strategy selector ----------
    gas_price_history,  \* _gas_price_history: the sampled gas prices, oldest
                        \*   first (the timestamp of a sample is never read)
    optimization_stats, \* _optimization_stats (the two analysis counters)
    profitCall,         \* the call under study and its arguments
    profitReturn,       \* the value that call returned
    \* ---- OpportunityDetector --------------------------------------------
    detected_opportunities,     \* _detected_opportunities, in insertion order
    blacklisted_opportunities,  \* _blacklisted_opportunities
    total_detected,             \* _detection_stats["total_detected"]
    is_running,                 \* _is_running
    detection_task,             \* _detection_task: the number of the task in
                                \*   tasks, 0 for None
    tasks,                      \* the loop tasks created so far, each
                                \*   "running", "backoff" (asleep after a
                                \*   cycle raised), "cancelling" or "done"
    market_feed,                \* MarketDataFeed: "stopped" or "started"
    tx_scanner,                 \* TxPoolScanner: "stopped" or "started"
    callerPc,                   \* where each caller's start() or stop() is
    callerReturn,               \* how each caller's last call ended
    detectorClock,              \* datetime.now(), in seconds
    detectorReturn,             \* the last call on the store and its result
    update_pass,                \* where _update_detected_opportunities is,
                                \*   when its statements are taken one by one
    execution_stats,            \* _detection_stats: total_executed,
                                \*   total_profitable and false_positives
    success_rates               \* AdvancedAnalytics._success_rates: strategy
                                \*   type -> rate, in thousandths

relayVars == <<session, pending_bundles, submission_stats, relayClock,
               relayReturn, sentBundles, simulatedOk, riskLog,
               active_liquidations>>

profitVars == <<gas_price_history, optimization_stats, profitCall, profitReturn>>

detectorVars == <<detected_opportunities, blacklisted_opportunities,
                  total_detected, is_running, detection_task, tasks,
                  market_feed, tx_scanner, callerPc, callerReturn,
                  detectorClock, detectorReturn, update_pass,
                  execution_stats, success_rates>>

vars == <<relayVars, profitVars, detectorVars>>

(***************************************************************************)
(* FlashbotsRelay                                                          *)
(***************************************************************************)

\* A bundle is a list of transactions with a target block; the model names
\* the bundles a caller may build.
Bundles == {"b1", "b2"}

\* Bundle hashes the relay may answer with.
Hashes == {"h1", "h2"}

\* What the relay may answer to eth_sendBundle: the POST or the JSON decoding
\* raises, the answer carries an "error" member, the "result" member is
\* missing or empty, or it is a bundle hash.
SubmitResponses == {"transport_error", "error", "empty"} \cup Hashes

\* What the relay may answer to eth_callBundle.  kind "error_object" is an
\* answer with an "error" member that is an object; "error_other" one whose
\* "error" member is no object (error.get raises); "null_result" has
\* "result": null; "result" has a result object (possibly empty).
\* gasUsed is the sum of the results' gasUsed (in 1e5 gas), coinbaseDiff is
\* in EthUnit; 0 stands for a missing member as well as for a zero one.
SimResponses ==
    [kind : {"transport_error", "error_object", "error_other", "null_result"},
     bundleHash : {FALSE}, gasUsed : {0}, coinbaseDiff : {0}]
    \cup
    {[kind |-> "result", bundleHash |-> TRUE, gasUsed |-> 3, coinbaseDiff |-> 2000],
     [kind |-> "result", bundleHash |-> TRUE, gasUsed |-> 3, coinbaseDiff |-> 0],
     [kind |-> "result", bundleHash |-> FALSE, gasUsed |-> 3, coinbaseDiff |-> 2000],
     [kind |-> "result", bundleHash |-> FALSE, gasUsed |-> 0, coinbaseDiff |-> 0]}

RelayInit ==
    /\ session = FALSE
    /\ pending_bundles = << >>
    /\ submission_stats = [total_submissions |-> 0, successful_bundles |-> 0,
                           failed_submissions |-> 0]
    /\ relayClock = 0
    /\ relayReturn = [op |-> "none"]
    /\ sentBundles = {}
    /\ simulatedOk = {}
    /\ riskLog = {}
    /\ active_liquidations = {}

\* start(): open the session if there is none.
RelayStart ==
    /\ session' = TRUE
    /\ UNCHANGED <<pending_bundles, submission_stats, relayClock, relayReturn, sentBundles,
                   simulatedOk, riskLog, active_liquidations>>

\* stop(): close the session.
RelayStop ==
    /\ session' = FALSE
    /\ UNCHANGED <<pending_bundles, submission_stats, relayClock, relayReturn, sentBundles,
                   simulatedOk, riskLog, active_liquidations>>

\* The dictionary simulate_bundle returns for an answer of the relay.
SimulationResult(hasSession, resp) ==
    IF ~hasSession \/ resp.kind \in {"transport_error", "error_other", "null_result"}
    THEN \* the except branch
         [success |-> FALSE, gas_used |-> 0, estimated_profit |-> 0]
    ELSE IF resp.kind = "error_object"
    THEN [success |-> FALSE, gas_used |-> 0, estimated_profit |-> 0]
    ELSE [success |-> resp.bundleHash, gas_used |-> resp.gasUsed,
          estimated_profit |-> resp.coinbaseDiff]

\* submit_bundle with a failed submission counted in total_submissions too.
SubmissionOutcomeCountsFailed(b, txsSigned, resp, hasSession, pend, stats, now) ==
    IF ~txsSigned \/ ~hasSession \/ resp \notin Hashes
    THEN <<[op |-> "submit", success |-> FALSE, bundle_hash |-> None,
            error |-> TRUE], pend,
           [stats EXCEPT !.failed_submissions = @ + 1,
                         !.total_submissions = @ + 1],
           txsSigned /\ hasSession>>
    ELSE <<[op |-> "submit", success |-> TRUE, bundle_hash |-> resp,
            error |-> FALSE],
           [h \in (DOMAIN pend) \cup {resp} |->
               IF h = resp
               THEN [bundle |-> b, submission_time |-> now, status |-> "pending"]
               ELSE pend[h]],
           [stats EXCEPT !.total_submissions = @ + 1], TRUE>>

\* The effect of submit_bundle on the relay for an answer of the relay.
\* txsSigned: every transaction has a rawTransaction attribute.
\* Yields <<return value, pending map, statistics, whether it was POSTed>>;
\* error tells whether the returned dictionary has an "error" message.
SubmissionOutcome(b, txsSigned, resp, hasSession, pend, stats, now) ==
    IF ~txsSigned \/ ~hasSession
    THEN \* building the request or self._session.post raises: nothing is sent
         <<[op |-> "submit", success |-> FALSE, bundle_hash |-> None,
            error |-> TRUE], pend,
           [stats EXCEPT !.failed_submissions = @ + 1], FALSE>>
    ELSE IF resp \notin Hashes
    THEN <<[op |-> "submit", success |-> FALSE, bundle_hash |-> None,
            error |-> TRUE], pend,
           [stats EXCEPT !.failed_submissions = @ + 1], TRUE>>
    ELSE <<[op |-> "submit", success |-> TRUE, bundle_hash |-> resp,
            error |-> FALSE],
           [h \in (DOMAIN pend) \cup {resp} |->
               IF h = resp
               THEN [bundle |-> b, submission_time |-> now, status |-> "pending"]
               ELSE pend[h]],
           [stats EXCEPT !.total_submissions = @ + 1], TRUE>>

\* The history record of a POST of bundle b: whether a successful simulation
\* of b with a non-negative profit came before it, and whether the risk
\* engine's latest answer for b at that moment was is_safe.
SentRecord(b, simulated) ==
    [bundle |-> b, simulated |-> b \in simulated, safe |-> b \in riskLog]

\* simulate_bundle(bundle), called by any client of the relay.
SimulateBundle(b, resp) ==
    LET r == SimulationResult(session, resp) IN
    /\ relayReturn' = [op |-> "simulate", success |-> r.success,
                       gas_used |-> r.gas_used,
                       estimated_profit |-> r.estimated_profit]
    /\ simulatedOk' = IF r.success /\ r.estimated_profit >= 0
                      THEN simulatedOk \cup {b} ELSE simulatedOk
    /\ UNCHANGED <<session, pending_bundles, submission_stats, relayClock,
                   sentBundles, riskLog, active_liquidations>>

\* submit_bundle(transactions, target_block), called by any client.
SubmitBundle(b, txsSigned, resp) ==
    LET o == SubmissionOutcome(b, txsSigned, resp, session, pending_bundles,
                               submission_stats, relayClock) IN
    /\ submission_stats.total_submissions + submission_stats.failed_submissions
           < MaxSubmissions
    /\ relayReturn' = o[1]
    /\ pending_bundles' = o[2]
    /\ submission_stats' = o[3]
    /\ sentBundles' = IF o[4] THEN sentBundles \cup {SentRecord(b, simulatedOk)}
                               ELSE sentBundles
    /\ UNCHANGED <<session, relayClock, simulatedOk, riskLog,
                   active_liquidations>>

\* The risk engine's check_risk_controls(tx_params) -> (is_safe, reason),
\* consulted by a client for the transactions of bundle b.
CheckRiskControls(b, isSafe) ==
    /\ riskLog' = IF isSafe THEN riskLog \cup {b} ELSE riskLog \ {b}
    /\ UNCHANGED <<session, pending_bundles, submission_stats, relayClock,
                   relayReturn, sentBundles, simulatedOk, active_liquidations>>

RelayTick ==
    /\ relayClock < MaxRelayClock
    /\ relayClock' = relayClock + 1
    /\ UNCHANGED <<session, pending_bundles, submission_stats, relayReturn,
                   sentBundles, simulatedOk, riskLog, active_liquidations>>

\* What the relay may answer to eth_getBundleByHash: the POST or the JSON
\* decoding raises, the answer carries an "error" member, the "result" member
\* is missing or empty, it is a bundle record, or it is a bundle record
\* whose blockNumber int() rejects.
StatusResponses == {"transport_error", "error", "empty", "found", "found_garbled"}

\* get_bundle_status: the "status" of the dictionary it returns.
BundleStatus(hasSession, resp) ==
    IF ~hasSession \/ resp = "transport_error" THEN "error"
    ELSE IF resp = "error" THEN "unknown"
    ELSE IF resp = "empty" THEN "not_included"
    ELSE IF resp = "found" THEN "included"
    ELSE "error"

\* get_bundle_status: whether it adds one to successful_bundles.
CountsSuccessful(hasSession, resp) ==
    hasSession /\ resp \in {"found", "found_garbled"}

RECURSIVE MonitorLoopToTheEnd(_, _, _, _)
RECURSIVE MonitorLoop(_, _, _, _)

\* The loop of monitor_bundle_inclusion going on after an included poll.
MonitorLoopToTheEnd(hasSession, responses, k, timeout_blocks) ==
    IF k > timeout_blocks
    THEN [included |-> FALSE, polls |-> k - 1,
          successful |-> 0]
    ELSE LET rest == MonitorLoopToTheEnd(hasSession, responses, k + 1, timeout_blocks)
         IN [rest EXCEPT !.successful =
                 @ + (IF CountsSuccessful(hasSession, responses[k]) THEN 1 ELSE 0)]

\* The loop of monitor_bundle_inclusion from its k-th pass on: whether a
\* poll reported inclusion, the number of polls made in all, and the number
\* of times get_bundle_status counted a success.
MonitorLoop(hasSession, responses, k, timeout_blocks) ==
    IF k > timeout_blocks
    THEN [included |-> FALSE, polls |-> k - 1, successful |-> 0]
    ELSE IF BundleStatus(hasSession, responses[k]) = "included"
    THEN [included |-> TRUE, polls |-> k, successful |-> 1]
    ELSE LET rest == MonitorLoop(hasSession, responses, k + 1, timeout_blocks)
         IN [rest EXCEPT !.successful =
                 @ + (IF CountsSuccessful(hasSession, responses[k]) THEN 1 ELSE 0)]

\* How the readings of web3.eth.block_number in monitor_bundle_inclusion
\* may go: both succeed, the one before the loop raises, or the one after the
\* included poll raises.
BlockNumberReads == {"ok", "start_raises", "end_raises"}

\* monitor_bundle_inclusion(bundle_hash, timeout_blocks).  responses are the
\* relay's answers to the polls, should they all be made; blocks is the
\* difference of the two readings of the block number.
MonitorBundleInclusion(timeout_blocks, responses, blockReads, blocks) ==
    LET loop == IF blockReads = "start_raises"
                THEN [included |-> FALSE, polls |-> 0, successful |-> 0]
                ELSE MonitorLoop(session, responses, 1, timeout_blocks)
        raised == \/ blockReads = "start_raises"
                  \/ (loop.included /\ blockReads = "end_raises")
    IN
    /\ submission_stats.successful_bundles + loop.successful <= MaxSuccessful
    /\ submission_stats' = [submission_stats EXCEPT
                               !.successful_bundles = @ + loop.successful]
    /\ relayReturn' =
           [op |-> "monitor", timeout_blocks |-> timeout_blocks,
            statuses |-> [k \in 1..timeout_blocks |->
                             BundleStatus(session, responses[k])],
            polls |-> loop.polls,
            raised |-> raised,
            included |-> loop.included /\ ~raised,
            blocks_waited |-> IF raised THEN 0
                              ELSE IF loop.included THEN blocks
                              ELSE timeout_blocks]
    /\ UNCHANGED <<session, pending_bundles, relayClock, sentBundles,
                   simulatedOk, riskLog, active_liquidations>>

\* get_bundle_status(bundle_hash), one poll: every answer that carries a
\* bundle adds one to successful_bundles.
GetBundleStatus(resp) ==
    LET counted == IF CountsSuccessful(session, resp) THEN 1 ELSE 0 IN
    /\ submission_stats.successful_bundles + counted <= MaxSuccessful
    /\ submission_stats' = [submission_stats EXCEPT
                               !.successful_bundles = @ + counted]
    /\ relayReturn' = [op |-> "status", status |-> BundleStatus(session, resp)]
    /\ UNCHANGED <<session, pending_bundles, relayClock, sentBundles,
                   simulatedOk, riskLog, active_liquidations>>

\* cleanup_expired_bundles with a bundle counted as expired from the very
\* second of the timeout.
ExpiredBundlesInclusive(pend, current_time) ==
    {h \in DOMAIN pend : current_time - pend[h].submission_time >= BundleTimeout}

\* cleanup_expired_bundles: the bundles it collects in expired_bundles.
ExpiredBundles(pend, current_time) ==
    {h \in DOMAIN pend : current_time - pend[h].submission_time > BundleTimeout}

\* cleanup_expired_bundles().
CleanupExpiredBundles ==
    LET expired_bundles == ExpiredBundles(pending_bundles, relayClock) IN
    /\ pending_bundles' = [h \in (DOMAIN pending_bundles) \ expired_bundles |->
                              pending_bundles[h]]
    /\ relayReturn' = [op |-> "cleanup", current_time |-> relayClock,
                       expired_bundles |-> expired_bundles]
    /\ UNCHANGED <<session, submission_stats, relayClock, sentBundles,
                   simulatedOk, riskLog, active_liquidations>>

\* The step of the clock while bundles are tracked: half the timeout.
TrackingTick ==
    /\ relayClock < MaxTrackingTicks * (BundleTimeout \div 2)
    /\ relayClock' = relayClock + BundleTimeout \div 2
    /\ UNCHANGED <<session, pending_bundles, submission_stats, relayReturn,
                   sentBundles, simulatedOk, riskLog, active_liquidations>>

(***************************************************************************)
(* LiquidationSniper                                                       *)
(***************************************************************************)

\* Liquidations are named by their borrower; the bundle built for a
\* liquidation is the one of the same index.
Borrowers == {"u1", "u2"}
BundleOf(liq) == IF liq = "u1" THEN "b1" ELSE "b2"

\* _build_liquidation_transaction: the placeholder returns None.
BuildLiquidationTransaction(liq) == None

\* _execute_liquidation(liquidation): build, simulate, re-check the profit,
\* submit.  simResp and subResp are the relay's answers to the two calls.
\* The transaction the builder is declared to return is a str, which has no
\* rawTransaction attribute.
ExecuteLiquidation(liq) ==
    LET tx == BuildLiquidationTransaction(liq)
        b == BundleOf(liq)
        Returned(what) == [op |-> "execute_liquidation", logged |-> what]
    IN
    IF tx = None
    THEN /\ relayReturn' = Returned("build_failed")
         /\ UNCHANGED <<session, pending_bundles, submission_stats, relayClock,
                        sentBundles, simulatedOk, riskLog, active_liquidations>>
    ELSE \E simResp \in SimResponses, subResp \in SubmitResponses :
         LET sim == SimulationResult(session, simResp)
             o == SubmissionOutcome(b, FALSE, subResp, session, pending_bundles,
                                    submission_stats, relayClock)
         IN
         IF ~sim.success
         THEN /\ relayReturn' = Returned("simulation_failed")
              /\ UNCHANGED <<session, pending_bundles, submission_stats,
                             relayClock, sentBundles, simulatedOk, riskLog,
                             active_liquidations>>
         ELSE IF sim.estimated_profit < SniperMinProfitEth
         THEN /\ relayReturn' = Returned("no_longer_profitable")
              /\ simulatedOk' = simulatedOk \cup {b}
              /\ UNCHANGED <<session, pending_bundles, submission_stats,
                             relayClock, sentBundles, riskLog,
                             active_liquidations>>
         ELSE /\ submission_stats.total_submissions
                     + submission_stats.failed_submissions < MaxSubmissions
              /\ simulatedOk' = simulatedOk \cup {b}
              /\ pending_bundles' = o[2]
              /\ submission_stats' = o[3]
              /\ sentBundles' = IF o[4]
                                THEN sentBundles \cup {SentRecord(b, simulatedOk \cup {b})}
                                ELSE sentBundles
              /\ active_liquidations' = IF o[1].success
                                        THEN active_liquidations \cup {liq}
                                        ELSE active_liquidations
              /\ relayReturn' = Returned(IF o[1].success THEN "submitted"
                                                         ELSE "submit_failed")
              /\ UNCHANGED <<session, relayClock, riskLog>>

(***************************************************************************)
(* ProfitOptimizer                                                         *)
(***************************************************************************)

\* Floor of a product with a decimal factor num/10 (the code multiplies a
\* gas price by 0.8, 0.9 or 1.1).
Scaled(price, num) == (price * num) \div 10

\* The last n elements of a sequence (the slice s[-n:]).
LastN(s, n) == IF Len(s) <= n THEN s ELSE SubSeq(s, Len(s) - n + 1, Len(s))

RECURSIVE SumSeq(_)
SumSeq(s) == IF s = << >> THEN 0 ELSE Head(s) + SumSeq(Tail(s))

RECURSIVE SumSquares(_)
SumSquares(s) == IF s = << >> THEN 0 ELSE Head(s) * Head(s) + SumSquares(Tail(s))

\* from_wei(int(wei), "ether") as an amount in EthUnit (1e13 wei): the part
\* of the amount below the unit is dropped.
FromWeiEther(wei) == (wei \div (1000 * 1000 * 1000)) \div (10 * 1000)

\* gas (1e5 gas) at a price (0.1 gwei), as from_wei(gas * to_wei(price,
\* "gwei"), "ether") in EthUnit.
GasCostEth(gas, price) == gas * price

\* net / amount * 100 >= pct, for amount > 0.
PercentAtLeast(net, amount, pct) == net * 100 >= pct * amount

\* roi_percentage >= pct in _calculate_profitability and _assess_profit_risk,
\* where roi_percentage = (net / amount_in) * 100 if amount_in > 0 else 0.
RoiAtLeast(net, amount, pct) ==
    IF amount > 0 THEN PercentAtLeast(net, amount, pct) ELSE 0 >= pct

\* The result of _simulate_transaction.  outcome "ok": eth.call returned a
\* value; "none": it returned None; "raise": eth.call or estimate_gas raised.
\* txGas is tx_params.get("gas", settings.default_gas_limit).
SimulateTransaction(outcome, gasEstimate, txGas) ==
    IF outcome = "raise"
    THEN [success |-> FALSE, gas_estimate |-> txGas, execution_probability |-> 30]
    ELSE [success |-> outcome = "ok", gas_estimate |-> gasEstimate,
          execution_probability |-> IF outcome = "ok" THEN 90 ELSE 10]

\* _calculate_optimal_gas_price(current_gas_price_gwei, gas_estimate).
CalculateOptimalGasPrice(history, current) ==
    IF Len(history) > 10
    THEN LET recent == SumSeq(LastN(history, 10)) IN   \* 10 * avg_recent_price
         IF current * 100 > recent * 12 THEN Scaled(current, 9)
         ELSE IF current * 100 < recent * 8 THEN Scaled(current, 11)
         ELSE current
    ELSE current

\* _assess_gas_market_conditions: the variance of the last 5 samples, in
\* gwei^2, against 100 and 25.  25 * 100 * variance = 5 * sum(p^2) - sum(p)^2
\* for prices p in 0.1 gwei.
AssessGasMarketConditions(history) ==
    IF Len(history) < 5 THEN "unknown"
    ELSE LET recent == LastN(history, 5)
             v == 5 * SumSquares(recent) - SumSeq(recent) * SumSeq(recent)
         IN IF v > 100 * 2500 THEN "volatile"
            ELSE IF v > 25 * 2500 THEN "moderate"
            ELSE "stable"

\* _update_gas_price_history: append, keep the last _max_history_size.
MaxHistorySize == 1000

\* StrategySelector.__init__: the thresholds.
GasThresholdHigh == 100

GasThresholdMedium == 60

VolatilityThreshold == 10

MempoolVolumeHigh == 1000
UpdateGasPriceHistory(history, price) ==
    LastN(Append(history, price), MaxHistorySize)

\* _analyze_gas_costs.  priceRead is what reading web3.eth.gas_price did:
\* it raised, or it gave a price.  Yields the gas analysis and the history
\* after the call.
AnalyzeGasCosts(sim, priceRead, history) ==
    IF priceRead.raises
    THEN [current_gas_price_gwei |-> FallbackGasPrice,
          optimized_gas_price_gwei |-> FallbackGasPrice,
          gas_estimate |-> DefaultGasLimit,
          current_gas_cost_eth |-> FallbackGasCostEth,
          optimized_gas_cost_eth |-> FallbackGasCostEth,
          gas_savings_eth |-> 0,
          market_conditions |-> "unknown",
          history |-> history]
    ELSE LET current == priceRead.price
             optimized == CalculateOptimalGasPrice(history, current)
             updated == UpdateGasPriceHistory(history, current)
         IN [current_gas_price_gwei |-> current,
             optimized_gas_price_gwei |-> optimized,
             gas_estimate |-> sim.gas_estimate,
             current_gas_cost_eth |-> GasCostEth(sim.gas_estimate, current),
             optimized_gas_cost_eth |-> GasCostEth(sim.gas_estimate, optimized),
             gas_savings_eth |-> GasCostEth(sim.gas_estimate, current)
                                   - GasCostEth(sim.gas_estimate, optimized),
             market_conditions |-> AssessGasMarketConditions(updated),
             history |-> updated]

Clamp(lo, hi, x) == IF x < lo THEN lo ELSE IF x > hi THEN hi ELSE x

\* _calculate_profit_confidence, in hundredths.
CalculateProfitConfidence(opp, gasAnalysis, sim, net) ==
    Clamp(10, 100,
          50
          + (IF sim.success THEN 20 ELSE 0)
          + (IF net > 1000 THEN 15 ELSE IF net > 500 THEN 10 ELSE 0)
          + (IF gasAnalysis.market_conditions = "stable" THEN 10
             ELSE IF gasAnalysis.market_conditions = "volatile" THEN -10 ELSE 0)
          + (IF opp.type \in {"arbitrage", "flashloan_arbitrage"} THEN 5
             ELSE IF opp.type \in {"sandwich", "front_run"} THEN -10 ELSE 0))

\* _assess_profit_risk.
AssessProfitRisk(net, amount, sim) ==
    LET risk_score ==
            (IF net < 500 THEN 3 ELSE IF net < 1000 THEN 2
             ELSE IF net < 2000 THEN 1 ELSE 0)
          + (IF ~RoiAtLeast(net, amount, 5) THEN 2
             ELSE IF ~RoiAtLeast(net, amount, 10) THEN 1 ELSE 0)
          + (IF ~sim.success THEN 2 ELSE 0)
    IN IF risk_score >= 5 THEN "high"
       ELSE IF risk_score >= 3 THEN "medium" ELSE "low"

\* _calculate_profitability.  opp.wellFormed is false when float() of the
\* opportunity's profit or amount raises: the except branch.
CalculateProfitability(opp, gasAnalysis, sim) ==
    IF ~opp.wellFormed
    THEN [gross_profit_eth |-> 0, gas_cost_eth |-> 0, net_profit_eth |-> 0,
          profitable |-> FALSE, confidence_score |-> 0, risk_level |-> "high",
          execution_probability |-> 0]
    ELSE LET gas_cost == gasAnalysis.optimized_gas_cost_eth
             net_profit == opp.expected_profit_eth - gas_cost
         IN [gross_profit_eth |-> opp.expected_profit_eth,
             gas_cost_eth |-> gas_cost,
             net_profit_eth |-> net_profit,
             profitable |-> /\ net_profit >= MinProfitEth
                            /\ RoiAtLeast(net_profit, opp.amount_in, MinRoiPercentage)
                            /\ sim.success,
             confidence_score |->
                 CalculateProfitConfidence(opp, gasAnalysis, sim, net_profit),
             risk_level |-> AssessProfitRisk(net_profit, opp.amount_in, sim),
             execution_probability |-> sim.execution_probability]

\* One round of the strategy loop of _optimize_gas_price.
TryStrategy(best, gross, gas, price) ==
    IF gross - GasCostEth(gas, price) > best.profit
    THEN [profit |-> gross - GasCostEth(gas, price), price |-> price]
    ELSE best

\* _optimize_gas_price: recommended_gas_price_gwei, in whole gwei.
OptimizeGasPrice(analysis, gasAnalysis) ==
    LET current == gasAnalysis.current_gas_price_gwei
        gross == analysis.gross_profit_eth
        gas == gasAnalysis.gas_estimate
        b0 == [profit |-> analysis.net_profit_eth,
               price |-> gasAnalysis.optimized_gas_price_gwei]
        b1 == TryStrategy(b0, gross, gas, Scaled(current, 8))
        b2 == TryStrategy(b1, gross, gas, Scaled(current, 9))
        b3 == TryStrategy(b2, gross, gas, current)
        b4 == TryStrategy(b3, gross, gas, Scaled(current, 11))
    IN IF analysis.profitable THEN gasAnalysis.optimized_gas_price_gwei \div 10
       ELSE b4.price \div 10

\* The ProfitAnalysis of the except branches.
ConservativeAnalysis ==
    [gross_profit_eth |-> 0, gas_cost_eth |-> 0, net_profit_eth |-> 0,
     roi_percentage |-> 0, profitable |-> FALSE, confidence_score |-> 0,
     risk_level |-> "high", recommended_gas_price_gwei |-> 0,
     simulation_success |-> FALSE, execution_probability |-> 0]

\* _finalize_profit_analysis.  The "optimized" cost is
\*   gas_cost_eth * 10**18 * gwei / (gas_cost_eth * 10**18 / gas_cost_eth)
\* wei, that is int(gas_cost_eth * gwei) wei; it raises ZeroDivisionError
\* for a zero gas cost.  roi_percentage is (net / 1.0) * 100, kept here in
\* thousandths of a percent (net in EthUnit).
FinalizeProfitAnalysis(analysis, recommended, sim) ==
    IF analysis.gas_cost_eth = 0 THEN ConservativeAnalysis
    ELSE LET optimized_gas_cost_wei ==
                 (analysis.gas_cost_eth * recommended) \div EthUnitsPerEth
             optimized_gas_cost_eth == FromWeiEther(optimized_gas_cost_wei)
             final_net_profit == analysis.gross_profit_eth - optimized_gas_cost_eth
         IN [gross_profit_eth |-> analysis.gross_profit_eth,
             gas_cost_eth |-> optimized_gas_cost_eth,
             net_profit_eth |-> final_net_profit,
             roi_percentage |-> final_net_profit,
             profitable |-> /\ final_net_profit >= MinProfitEth
                            /\ PercentAtLeast(final_net_profit, EthUnitsPerEth,
                                              MinRoiPercentage)
                            /\ sim.success,
             confidence_score |-> analysis.confidence_score,
             risk_level |-> analysis.risk_level,
             recommended_gas_price_gwei |-> recommended,
             simulation_success |-> sim.success,
             execution_probability |-> analysis.execution_probability]

\* analyze_profitability(opportunity, tx_params): the five steps.
\* Yields the ProfitAnalysis, the gas estimate it priced and the history.
ProfitabilityAnalysis(c, history) ==
    LET sim == SimulateTransaction(c.simOutcome, c.gasEstimate, c.txGas)
        gasAnalysis == AnalyzeGasCosts(sim, c.gasPrice, history)
        analysis == CalculateProfitability(c.opportunity, gasAnalysis, sim)
        recommended == OptimizeGasPrice(analysis, gasAnalysis)
    IN [analysis |-> FinalizeProfitAnalysis(analysis, recommended, sim),
        gas_estimate |-> gasAnalysis.gas_estimate,
        finalizeRaised |-> analysis.gas_cost_eth = 0,
        history |-> gasAnalysis.history]

\* is_profitable_trade with an exclusive threshold (roi > threshold).
IsProfitableTradeExclusive(input_amt, output_amt, gas_cost_eth, roi_threshold_pct) ==
    IF input_amt <= 0 THEN FALSE
    ELSE LET net_profit == output_amt - input_amt - gas_cost_eth
         IN net_profit * 100 > roi_threshold_pct * input_amt

\* is_profitable_trade(input_amt, output_amt, gas_cost_eth, roi_threshold_pct).
IsProfitableTrade(input_amt, output_amt, gas_cost_eth, roi_threshold_pct) ==
    IF input_amt <= 0 THEN FALSE
    ELSE LET net_profit == output_amt - input_amt - gas_cost_eth
         IN PercentAtLeast(net_profit, input_amt, roi_threshold_pct)

(***************************************************************************)
(* AdvancedAnalytics: the profit sub-score                                 *)
(***************************************************************************)

\* _calculate_profit_score, in thousandths.  roi = net_profit / amount_in.
CalculateProfitScore(expected_profit, amount_in, gas_estimate) ==
    IF expected_profit <= 0 \/ amount_in <= 0 THEN 0
    ELSE LET net_profit == expected_profit - gas_estimate IN
         IF net_profit <= 0 THEN 0
         ELSE IF net_profit * 1000 < amount_in THEN 100
         ELSE IF net_profit * 100 < amount_in THEN 300
         ELSE IF net_profit * 20 < amount_in THEN 600
         ELSE IF net_profit * 10 < amount_in THEN 800
         ELSE LET s == 800 + (net_profit * 2000) \div amount_in - 200
              IN IF s > 1000 THEN 1000 ELSE s

\* The fields of an OpportunityScore that the detector reads, in hundredths.
OpportunityScore(total_score, risk_score, confidence_interval) ==
    [total_score |-> total_score, risk_score |-> risk_score,
     confidence_interval |-> confidence_interval]

\* A score that lets the opportunity through when scoring fails.
FailOpenScore == OpportunityScore(100, 0, <<100, 100>>)

\* score_opportunity, except branch: the score returned when anything in
\* the scoring raised.
FailClosedScore == OpportunityScore(0, 100, <<0, 0>>)

\* The strategy types of OpportunityType, and one that is none of them.
StrategyTypes ==
    {"arbitrage", "front_run", "back_run", "sandwich", "flashloan_arbitrage",
     "liquidation", "unknown"}

\* _get_opportunity_weights, in hundredths.
GetOpportunityWeights(opportunity_type) ==
    LET base_weights == [profit |-> 30, risk |-> 20, execution |-> 20,
                         market |-> 15, gas |-> 10, competition |-> 5]
    IN IF opportunity_type = "flashloan_arbitrage"
       THEN [base_weights EXCEPT !.profit = 40, !.risk = 15]
       ELSE IF opportunity_type = "sandwich"
       THEN [base_weights EXCEPT !.risk = 30, !.competition = 15]
       ELSE IF opportunity_type = "arbitrage"
       THEN [base_weights EXCEPT !.execution = 25]
       ELSE base_weights

\* _get_strategy_risk, in thousandths.
GetStrategyRisk(strategy_type) ==
    CASE strategy_type = "arbitrage" -> 100
      [] strategy_type = "front_run" -> 300
      [] strategy_type = "back_run" -> 200
      [] strategy_type = "sandwich" -> 500
      [] strategy_type = "flashloan_arbitrage" -> 150
      [] strategy_type = "liquidation" -> 250
      [] OTHER -> 300

\* The methods AdvancedAnalytics defines and score_opportunity's call tree
\* looks up.  _get_competition_level, which _calculate_risk_score calls, is
\* defined nowhere.
AnalyticsMethods ==
    {"_calculate_profit_score", "_calculate_risk_score",
     "_calculate_execution_probability", "_calculate_market_conditions_score",
     "_calculate_gas_efficiency_score", "_calculate_competition_score",
     "_get_opportunity_weights", "_calculate_confidence_interval",
     "_get_token_volatility", "_assess_liquidity_risk", "_get_strategy_risk",
     "_get_market_conditions", "_assess_gas_stability",
     "_assess_liquidity_availability", "_get_market_regime_score",
     "_get_volatility_score", "_get_trend_score", "_get_sentiment_score",
     "_find_similar_transactions", "_get_historical_competition",
     "_assess_gas_competition"}

\* _calculate_risk_score, in thousandths: the token volatility is 0.05 and
\* adds nothing, the liquidity risk is 0.2, a slippage estimate above 0.05
\* adds 0.4; then self._get_competition_level is looked up, and the look-up
\* of a missing attribute raises AttributeError.  Past that line the
\* competition term and the strategy's base risk are added and the sum is
\* capped at 1.0; the method being absent, the competition term has no value
\* and the branch gives the capped sum of the other terms.
CalculateRiskScore(opportunity) ==
    LET liquidity_score == 200
        slippage_risk == IF opportunity.slippage_estimate > 50 THEN 400 ELSE 0
        risk_factors == liquidity_score + slippage_risk
    IN IF "_get_competition_level" \notin AnalyticsMethods
       THEN [raises |-> TRUE, value |-> 0]
       ELSE LET sum == risk_factors + GetStrategyRisk(opportunity.type)
            IN [raises |-> FALSE, value |-> IF sum > 1000 THEN 1000 ELSE sum]

\* _calculate_gas_efficiency_score, in thousandths.
CalculateGasEfficiencyScore(expected_profit, gas_estimate) ==
    IF expected_profit <= 0 \/ gas_estimate <= 0 THEN 0
    ELSE IF gas_estimate * 20 < expected_profit THEN 1000
    ELSE IF gas_estimate * 10 < expected_profit THEN 800
    ELSE IF gas_estimate * 5 < expected_profit THEN 600
    ELSE IF gas_estimate * 2 < expected_profit THEN 300
    ELSE 0

\* _calculate_confidence_interval with good data quality and the normal
\* volatility regime: the score give or take 0.1, within [0, 1]; thousandths.
CalculateConfidenceInterval(base_score) ==
    << IF base_score - 100 < 0 THEN 0 ELSE base_score - 100,
       IF base_score + 100 > 1000 THEN 1000 ELSE base_score + 100 >>

\* score_opportunity, the weighted combination of the six sub-scores: the
\* sub-scores are in thousandths and the weights in hundredths, the total
\* is in thousandths.  Nothing clamps the sum.
TotalScore(opportunity_type, scores) ==
    LET weights == GetOpportunityWeights(opportunity_type)
    IN (scores.profit * weights.profit
        + scores.risk * weights.risk
        + scores.execution * weights.execution
        + scores.market * weights.market
        + scores.gas * weights.gas
        + scores.competition * weights.competition) \div 100

\* score_opportunity.  An opportunity whose profit, amount or gas field
\* float() rejects raises at once; the except branch turns every exception
\* into the fail-closed score.  On the normal path the execution, market and
\* competition sub-scores are the means of the placeholder terms: 0.725,
\* 0.6 and 0.233.
ScoreOpportunity(opportunity) ==
    IF ~opportunity.numeric THEN FailClosedScore
    ELSE LET profit_score == CalculateProfitScore(opportunity.expected_profit_eth,
                                                  opportunity.amount_in,
                                                  opportunity.gas_estimate_eth)
             risk == CalculateRiskScore(opportunity)
         IN IF risk.raises THEN FailClosedScore
            ELSE LET gas_score ==
                         CalculateGasEfficiencyScore(opportunity.expected_profit_eth,
                                                     opportunity.gas_estimate_eth)
                     weights == GetOpportunityWeights(opportunity.type)
                     total_score == (profit_score * weights.profit
                                     + risk.value * weights.risk
                                     + 725 * weights.execution
                                     + 600 * weights.market
                                     + gas_score * weights.gas
                                     + 233 * weights.competition) \div 100
                     interval == CalculateConfidenceInterval(total_score)
                 IN OpportunityScore(total_score \div 10, risk.value \div 10,
                                     <<interval[1] \div 10, interval[2] \div 10>>)

(***************************************************************************)
(* StrategySelector.  Gas prices are in gwei, the volatility in percent    *)
(* and the mempool rate in transactions per minute.                        *)
(***************************************************************************)

\* select_strategy with the medium gas threshold inclusive.
SelectStrategyInclusive(mempool_tx_rate, gas_price_gwei, token_price_volatility) ==
    IF gas_price_gwei >= GasThresholdHigh
           \/ token_price_volatility >= VolatilityThreshold
    THEN "skip"
    ELSE IF mempool_tx_rate >= MempoolVolumeHigh
                /\ gas_price_gwei <= GasThresholdMedium
    THEN "multi_hop"
    ELSE "simple"

\* select_strategy, for numeric arguments.
SelectStrategy(mempool_tx_rate, gas_price_gwei, token_price_volatility) ==
    IF gas_price_gwei >= GasThresholdHigh
           \/ token_price_volatility >= VolatilityThreshold
    THEN "skip"
    ELSE IF mempool_tx_rate >= MempoolVolumeHigh
                /\ gas_price_gwei < GasThresholdMedium
    THEN "multi_hop"
    ELSE "simple"

\* dict.get(key, 0) on the market conditions, a function from the names of
\* the fields that are present.
ConditionOrZero(market_conditions, key) ==
    IF key \in DOMAIN market_conditions THEN market_conditions[key] ELSE 0

\* get_strategy_confidence, for numeric conditions; in hundredths.
GetStrategyConfidence(strategy, market_conditions) ==
    IF strategy = "skip" THEN 0
    ELSE IF DOMAIN market_conditions = {} THEN 50
    ELSE LET gas_price == ConditionOrZero(market_conditions, "gas_price_gwei")
             volatility == ConditionOrZero(market_conditions,
                                           "token_price_volatility")
             mempool_volume == ConditionOrZero(market_conditions,
                                               "mempool_tx_rate")
             confidence ==
                 50 + (IF gas_price < 30 THEN 20
                       ELSE IF gas_price > 80 THEN 0 - 20 ELSE 0)
                    + (IF volatility < 5 THEN 20
                       ELSE IF volatility > 15 THEN 0 - 20 ELSE 0)
                    + (IF mempool_volume > 500 THEN 10 ELSE 0)
         IN Clamp(0, 100, confidence)

(***************************************************************************)
(* The profit calls under study.  The arguments of a call are drawn when   *)
(* the state is set up and the call is then applied to them.               *)
(***************************************************************************)

Opportunities ==
    [type : {"arbitrage", "sandwich"},
     expected_profit_eth : {5500, 6000},
     amount_in : {0, EthUnitsPerEth, 10 * EthUnitsPerEth},
     wellFormed : BOOLEAN]

\* Gas prices web3.eth.gas_price may give, in 0.1 gwei.
GasPrices == {0, 200, 500}

GasPriceReads ==
    {[raises |-> TRUE, price |-> 0]} \cup [raises : {FALSE}, price : GasPrices]

AnalyzeCalls ==
    [op : {"analyze"}, opportunity : Opportunities,
     simOutcome : {"ok", "none", "raise"}, gasEstimate : {2, 20},
     txGas : {DefaultGasLimit}, gasPrice : GasPriceReads]

TradeCalls ==
    [op : {"trade"},
     input_amt : {0 - EthUnitsPerEth, 0, EthUnitsPerEth, 10 * EthUnitsPerEth},
     output_amt : {104000, 105000, 106000, 1060000},
     gas_cost_eth : {0, 1000, 10000},
     roi_threshold_pct : {0, 5, 10}]

ScoreCalls ==
    [op : {"score"}, expected_profit : {0, 1000, 6000, 20000},
     amount_in : {0, EthUnitsPerEth}, gas_estimate : {0, 1000, 6000}]

\* The arguments of _get_opportunity_weights.
WeightsCalls == [op : {"weights"}, opportunity_type : StrategyTypes]

\* The arguments of select_strategy: below, at and above each threshold.
SelectCalls ==
    [op : {"select"},
     mempool_tx_rate : {0, MempoolVolumeHigh - 1, MempoolVolumeHigh,
                        MempoolVolumeHigh + 200},
     gas_price_gwei : {0, GasThresholdMedium - 1, GasThresholdMedium,
                       GasThresholdHigh - 1, GasThresholdHigh},
     token_price_volatility : {VolatilityThreshold - 5, VolatilityThreshold,
                               VolatilityThreshold + 5}]

\* The opportunities handed to score_opportunity: the money fields are
\* numbers (numeric) or something float() rejects; the slippage estimate
\* is in thousandths.
ScoredOpportunities ==
    [type : StrategyTypes,
     expected_profit_eth : {0, 6000},
     amount_in : {EthUnitsPerEth},
     gas_estimate_eth : {1000},
     slippage_estimate : {10, 60},
     numeric : BOOLEAN]

ScoreOpportunityCalls ==
    [op : {"score_opportunity"}, opportunity : ScoredOpportunities]

\* The six sub-scores score_opportunity combines, each within [0, 1], in
\* thousandths.
SubScores ==
    [profit : {0, 1000}, risk : {0, 500, 1000}, execution : {0, 1000},
     market : {0, 1000}, gas : {0, 1000}, competition : {0, 1000}]

CombineCalls ==
    [op : {"combine"}, opportunity_type : StrategyTypes, scores : SubScores]

\* The arguments of _calculate_gas_efficiency_score, in EthUnit: gas
\* estimates at zero and on either side of each step of the ratio.
GasEfficiencyCalls ==
    [op : {"gas_efficiency"}, expected_profit : {0, 10000},
     gas_estimate : {0, 1, 499, 500, 999, 1000, 1999, 2000, 4999, 5000, 10000}]

ConditionFields == {"gas_price_gwei", "token_price_volatility", "mempool_tx_rate"}

\* The market conditions handed to get_strategy_confidence: any of the
\* three fields may be missing; the values are on either side of each band.
MarketConditions ==
    UNION {[present -> {0, 4, 5, 16, 29, 30, 81, 501}] :
               present \in SUBSET ConditionFields}

ConfidenceCalls ==
    [op : {"confidence"}, strategy : {"skip", "simple", "multi_hop"},
     market_conditions : MarketConditions]

\* Histories the optimizer may have collected: none, eleven samples of
\* 20 gwei, eleven samples of 50 gwei.
HistorySeeds ==
    {<< >>, [i \in 1..11 |-> 200], [i \in 1..11 |-> 500]}

ProfitIdle ==
    /\ gas_price_history = << >>
    /\ optimization_stats = [total_analyses |-> 0, profitable_opportunities |-> 0]
    /\ profitCall = [op |-> "none"]
    /\ profitReturn = [op |-> "none"]

ProfitInit ==
    /\ optimization_stats = [total_analyses |-> 0, profitable_opportunities |-> 0]
    /\ profitReturn = [op |-> "none"]
    /\ \/ /\ profitCall \in AnalyzeCalls
          /\ gas_price_history \in HistorySeeds
       \/ /\ profitCall \in TradeCalls \cup ScoreCalls \cup WeightsCalls
                             \cup SelectCalls \cup ScoreOpportunityCalls
                             \cup CombineCalls \cup GasEfficiencyCalls
                             \cup ConfidenceCalls
          /\ gas_price_history = << >>

AnalyzeProfitability ==
    /\ profitCall.op = "analyze"
    /\ optimization_stats.total_analyses < MaxAnalyses
    /\ LET r == ProfitabilityAnalysis(profitCall, gas_price_history) IN
       /\ gas_price_history' = r.history
       /\ optimization_stats' =
              [total_analyses |-> optimization_stats.total_analyses + 1,
               profitable_opportunities |->
                   optimization_stats.profitable_opportunities
                   + (IF r.analysis.profitable THEN 1 ELSE 0)]
       /\ profitReturn' = [op |-> "analyze", analysis |-> r.analysis,
                           gas_estimate |-> r.gas_estimate,
                           finalizeRaised |-> r.finalizeRaised]
    /\ UNCHANGED profitCall

IsProfitableTradeCall ==
    /\ profitCall.op = "trade"
    /\ profitReturn' =
           [op |-> "trade",
            result |-> IsProfitableTrade(profitCall.input_amt, profitCall.output_amt,
                                         profitCall.gas_cost_eth,
                                         profitCall.roi_threshold_pct)]
    /\ UNCHANGED <<gas_price_history, optimization_stats, profitCall>>

CalculateProfitScoreCall ==
    /\ profitCall.op = "score"
    /\ profitReturn' =
           [op |-> "score",
            result |-> CalculateProfitScore(profitCall.expected_profit,
                                            profitCall.amount_in,
                                            profitCall.gas_estimate)]
    /\ UNCHANGED <<gas_price_history, optimization_stats, profitCall>>

GetOpportunityWeightsCall ==
    /\ profitCall.op = "weights"
    /\ profitReturn' =
           [op |-> "weights",
            result |-> GetOpportunityWeights(profitCall.opportunity_type)]
    /\ UNCHANGED <<gas_price_history, optimization_stats, profitCall>>

SelectStrategyCall ==
    /\ profitCall.op = "select"
    /\ profitReturn' =
           [op |-> "select",
            result |-> SelectStrategy(profitCall.mempool_tx_rate,
                                      profitCall.gas_price_gwei,
                                      profitCall.token_price_volatility)]
    /\ UNCHANGED <<gas_price_history, optimization_stats, profitCall>>

ScoreOpportunityCall ==
    /\ profitCall.op = "score_opportunity"
    /\ profitReturn' =
           [op |-> "score_opportunity",
            result |-> ScoreOpportunity(profitCall.opportunity)]
    /\ UNCHANGED <<gas_price_history, optimization_stats, profitCall>>

CalculateGasEfficiencyScoreCall ==
    /\ profitCall.op = "gas_efficiency"
    /\ profitReturn' =
           [op |-> "gas_efficiency",
            result |-> CalculateGasEfficiencyScore(profitCall.expected_profit,
                                                   profitCall.gas_estimate)]
    /\ UNCHANGED <<gas_price_history, optimization_stats, profitCall>>

GetStrategyConfidenceCall ==
    /\ profitCall.op = "confidence"
    /\ profitReturn' =
           [op |-> "confidence",
            result |-> GetStrategyConfidence(profitCall.strategy,
                                             profitCall.market_conditions)]
    /\ UNCHANGED <<gas_price_history, optimization_stats, profitCall>>

\* score_opportunity from the weighted combination on: the six sub-scores
\* have been computed, the total and its confidence interval are built from
\* them and returned.
CombineSubScoresCall ==
    /\ profitCall.op = "combine"
    /\ LET total_score == TotalScore(profitCall.opportunity_type,
                                     profitCall.scores)
       IN profitReturn' =
              [op |-> "combine",
               result |-> OpportunityScore(
                              total_score, profitCall.scores.risk,
                              CalculateConfidenceInterval(total_score))]
    /\ UNCHANGED <<gas_price_history, optimization_stats, profitCall>>

(***************************************************************************)
(* OpportunityDetector                                                     *)
(*                                                                         *)
(* Times are in seconds.  expected_profit_eth is in EthUnit and            *)
(* confidence_score in hundredths.                                         *)
(***************************************************************************)

\* The step of the clock between two observations of datetime.now().
TickSeconds == StaleAfterSeconds \div 2

\* _generate_opportunity_id: a digest of the type, the chain id, the tokens
\* and the timestamp of the detection.  Two detections get the same id
\* exactly when they agree on these.
GenerateOpportunityId(opp_data) ==
    <<opp_data.type, opp_data.tokens, opp_data.timestamp>>

\* What the strategy detectors may find in one cycle, in the order
\* _detect_all_opportunities collects them (arbitrage before sandwich), each
\* with what score_opportunity does for it: it returns a score, or something
\* in it raises.  A detection is stamped with the time of the cycle.
Detections ==
    << [type |-> "arbitrage", tokens |-> "WETH/USDC",
        expected_profit_eth |-> 4000, scoring_raises |-> FALSE,
        analytics_score |-> OpportunityScore(60, 37, <<50, 70>>)],
       [type |-> "arbitrage", tokens |-> "WETH/DAI",
        expected_profit_eth |-> 2000, scoring_raises |-> FALSE,
        analytics_score |-> OpportunityScore(90, 37, <<80, 100>>)],
       [type |-> "sandwich", tokens |-> "WETH/USDC",
        expected_profit_eth |-> 500, scoring_raises |-> FALSE,
        analytics_score |-> OpportunityScore(90, 77, <<80, 100>>)],
       [type |-> "sandwich", tokens |-> "WETH/DAI",
        expected_profit_eth |-> 4000, scoring_raises |-> TRUE] >>

\* self._analytics.score_opportunity(opp_data) for detection d.
AnalyticsScore(d) ==
    IF d.scoring_raises THEN FailClosedScore ELSE d.analytics_score

\* _detect_arbitrage_opportunities.  pairs gives, for each token pair in
\* turn, what examining it does: it raises, it finds nothing (found = 0) or
\* it appends detection found.  The try encloses the whole loop and the
\* return follows the except: an exception ends the loop and the list
\* gathered so far is returned.
RECURSIVE DetectArbitrageOpportunities(_)
DetectArbitrageOpportunities(pairs) ==
    IF pairs = << >> \/ Head(pairs).raises THEN << >>
    ELSE (IF Head(pairs).found # 0 THEN <<Head(pairs).found>> ELSE << >>)
         \o DetectArbitrageOpportunities(Tail(pairs))

\* _detect_sandwich_opportunities, likewise over the pending transactions.
RECURSIVE DetectSandwichOpportunities(_)
DetectSandwichOpportunities(pending_txs) ==
    IF pending_txs = << >> \/ Head(pending_txs).raises THEN << >>
    ELSE (IF Head(pending_txs).found # 0 THEN <<Head(pending_txs).found>>
          ELSE << >>)
         \o DetectSandwichOpportunities(Tail(pending_txs))

\* _detect_all_opportunities with every strategy enabled: the lists of the
\* detectors one after the other.  The front-running, back-running and
\* liquidation detectors find nothing.
DetectAllOpportunities(pairs, pending_txs) ==
    DetectArbitrageOpportunities(pairs) \o DetectSandwichOpportunities(pending_txs)

\* What examining one token pair or one pending transaction may do.
Examined(found) ==
    {[raises |-> TRUE, found |-> 0], [raises |-> FALSE, found |-> 0]}
    \cup [raises : {FALSE}, found : found]

\* The runs of the arbitrage detector over two token pairs and of the
\* sandwich detector over two pending transactions.
DetectCalls ==
    [op : {"detect"},
     pairs : [1..2 -> Examined({1, 2})],
     pending_txs : [1..2 -> Examined({3, 4})]]

\* One call of _detect_all_opportunities, as _detection_loop makes it.
DetectAllOpportunitiesCall ==
    /\ profitCall.op = "detect"
    /\ profitReturn.op = "none"
    /\ profitReturn' =
           [op |-> "detect",
            result |-> DetectAllOpportunities(profitCall.pairs,
                                              profitCall.pending_txs)]
    /\ UNCHANGED <<gas_price_history, optimization_stats, profitCall>>

\* The lists of detections of one cycle: none, one, or two of them.
DetectionLists ==
    {<< >>}
    \cup {<<i>> : i \in 1..Len(Detections)}
    \cup {p \in (1..Len(Detections)) \X (1..Len(Detections)) : p[1] < p[2]}

\* _score_opportunities: the DetectedOpportunity built from each detection.
ScoreOpportunities(list, now) ==
    [k \in 1..Len(list) |->
        LET d == Detections[list[k]]
            opp_data == [type |-> d.type, tokens |-> d.tokens, timestamp |-> now]
            analytics_score == AnalyticsScore(d)
        IN [id |-> GenerateOpportunityId(opp_data),
            type |-> d.type,
            expected_profit_eth |-> d.expected_profit_eth,
            confidence_score |-> analytics_score.total_score,
            timestamp |-> now,
            analytics_score |-> analytics_score]]

Ids(opps) == {opps[k].id : k \in 1..Len(opps)}

\* _detection_loop going on after _detect_all_opportunities returned:
\* _score_opportunities on what was detected.
ScoreDetectedCall ==
    /\ profitReturn.op = "detect"
    /\ profitReturn' =
           [op |-> "scored", result |-> profitReturn.result,
            scored_opportunities |->
                ScoreOpportunities(profitReturn.result, detectorClock)]
    /\ UNCHANGED <<gas_price_history, optimization_stats, profitCall>>

\* dict[key] = value on an insertion-ordered dict kept as a sequence: an
\* existing key keeps its place.
RECURSIVE DictSet(_, _)
DictSet(dict, opp) ==
    IF dict = << >> THEN <<opp>>
    ELSE IF Head(dict).id = opp.id THEN <<opp>> \o Tail(dict)
    ELSE <<Head(dict)>> \o DictSet(Tail(dict), opp)

RECURSIVE DictSetAll(_, _)
DictSetAll(dict, opps) ==
    IF opps = << >> THEN dict
    ELSE DictSetAll(DictSet(dict, Head(opps)), Tail(opps))

\* del dict[key] for every key of a set.
RECURSIVE DictDelete(_, _)
DictDelete(dict, ids) ==
    IF dict = << >> THEN << >>
    ELSE IF Head(dict).id \in ids THEN DictDelete(Tail(dict), ids)
    ELSE <<Head(dict)>> \o DictDelete(Tail(dict), ids)

\* The stale ids of _update_detected_opportunities, evicting at the window
\* already (age >= 300 s).
StaleIdsInclusive(dict, current_time) ==
    {dict[k].id : k \in {j \in 1..Len(dict) :
                            current_time - dict[j].timestamp >= StaleAfterSeconds}}

\* The stale ids of _update_detected_opportunities: age > 300 s.
StaleIds(dict, current_time) ==
    {dict[k].id : k \in {j \in 1..Len(dict) :
                            current_time - dict[j].timestamp > StaleAfterSeconds}}

\* _update_detected_opportunities: the store after the pass.
UpdateDetectedOpportunities(dict, new_opportunities, current_time) ==
    LET added == DictSetAll(dict, new_opportunities)
    IN DictDelete(added, StaleIds(added, current_time))

\* The sort key of get_best_opportunities.
PriorityScore(opp) == opp.expected_profit_eth * opp.confidence_score

\* list.sort(key, reverse=True) is stable: an element goes after the
\* elements whose key is at least its own.
RECURSIVE InsertDescending(_, _)
InsertDescending(sorted, opp) ==
    IF sorted = << >> THEN <<opp>>
    ELSE IF PriorityScore(Head(sorted)) >= PriorityScore(opp)
         THEN <<Head(sorted)>> \o InsertDescending(Tail(sorted), opp)
         ELSE <<opp>> \o sorted

RECURSIVE SortDescending(_)
SortDescending(opps) ==
    IF opps = << >> THEN << >>
    ELSE InsertDescending(SortDescending(SubSeq(opps, 1, Len(opps) - 1)),
                          opps[Len(opps)])

\* The filter of get_best_opportunities.
ValidOpportunity(opp, blacklisted) ==
    /\ opp.expected_profit_eth >= MinProfitEth
    /\ opp.confidence_score >= MinConfidenceScore
    /\ opp.id \notin blacklisted

\* get_best_opportunities with the valid opportunities in ascending order
\* of the key.
BestOpportunitiesAscending(dict, blacklisted, limit) ==
    LET valid == SelectSeq(dict, LAMBDA opp : ValidOpportunity(opp, blacklisted))
        descending == SortDescending(valid)
        sorted == [k \in 1..Len(descending) |-> descending[Len(descending) + 1 - k]]
    IN SubSeq(sorted, 1, IF limit < Len(sorted) THEN limit ELSE Len(sorted))

\* get_best_opportunities(limit), for limit >= 0.
BestOpportunities(dict, blacklisted, limit) ==
    LET valid == SelectSeq(dict, LAMBDA opp : ValidOpportunity(opp, blacklisted))
        sorted == SortDescending(valid)
    IN SubSeq(sorted, 1, IF limit < Len(sorted) THEN limit ELSE Len(sorted))

Callers == {"c1", "c2"}

\* The detector after __init__.
DetectorInit ==
    /\ detected_opportunities = << >>
    /\ blacklisted_opportunities = {}
    /\ total_detected = 0
    /\ is_running = FALSE
    /\ detection_task = 0
    /\ tasks = << >>
    /\ market_feed = "stopped"
    /\ tx_scanner = "stopped"
    /\ callerPc = [c \in Callers |-> [at |-> "idle"]]
    /\ callerReturn = [c \in Callers |-> "none"]
    /\ detectorClock = 0
    /\ detectorReturn = [op |-> "none"]
    /\ update_pass = [at |-> "idle"]
    /\ execution_stats = [total_executed |-> 0, total_profitable |-> 0,
                          false_positives |-> 0]
    /\ success_rates = << >>

\* The detector after one start() went through: the loop is running.
DetectorRunning ==
    /\ detected_opportunities = << >>
    /\ blacklisted_opportunities = {}
    /\ total_detected = 0
    /\ is_running = TRUE
    /\ detection_task = 1
    /\ tasks = <<"running">>
    /\ market_feed = "started"
    /\ tx_scanner = "started"
    /\ callerPc = [c \in Callers |-> [at |-> "idle"]]
    /\ callerReturn = [c \in Callers |-> "none"]
    /\ detectorClock = 0
    /\ detectorReturn = [op |-> "none"]
    /\ update_pass = [at |-> "idle"]
    /\ execution_stats = [total_executed |-> 0, total_profitable |-> 0,
                          false_positives |-> 0]
    /\ success_rates = << >>

lifecycleVars == <<is_running, detection_task, tasks, market_feed, tx_scanner,
                   callerPc, callerReturn>>

storeVars == <<detected_opportunities, blacklisted_opportunities, total_detected,
               detectorClock, detectorReturn, update_pass, execution_stats,
               success_rates>>

\* One iteration of _detection_loop by task t: detect, score, update the
\* store and the statistics.
DetectionCycle(t, list) ==
    /\ t \in 1..Len(tasks)
    /\ tasks[t] = "running"
    /\ is_running
    /\ total_detected + Len(list) <= MaxDetected
    /\ LET scored == ScoreOpportunities(list, detectorClock) IN
       /\ detected_opportunities' =
              UpdateDetectedOpportunities(detected_opportunities, scored,
                                          detectorClock)
       /\ total_detected' = total_detected + Len(scored)
       /\ detectorReturn' =
              [op |-> "update", task |-> t, detections |-> list,
               new_opportunities |-> scored,
               current_time |-> detectorClock,
               stale_ids |-> StaleIds(DictSetAll(detected_opportunities, scored),
                                      detectorClock)]
    /\ UNCHANGED <<blacklisted_opportunities, detectorClock, update_pass,
                   lifecycleVars, execution_stats, success_rates>>

\* blacklist_opportunity(opportunity_id).
BlacklistOpportunity(opportunity_id) ==
    /\ Cardinality(blacklisted_opportunities \cup {opportunity_id}) <= MaxBlacklisted
    /\ blacklisted_opportunities' = blacklisted_opportunities \cup {opportunity_id}
    /\ detected_opportunities' = DictDelete(detected_opportunities, {opportunity_id})
    /\ detectorReturn' = [op |-> "blacklist", id |-> opportunity_id]
    /\ UNCHANGED <<total_detected, detectorClock, update_pass, lifecycleVars, execution_stats, success_rates>>

\* get_best_opportunities(limit).
GetBestOpportunities(limit) ==
    /\ detectorReturn' =
           [op |-> "get_best", limit |-> limit,
            result |-> BestOpportunities(detected_opportunities,
                                         blacklisted_opportunities, limit)]
    /\ UNCHANGED <<detected_opportunities, blacklisted_opportunities,
                   total_detected, detectorClock, update_pass, lifecycleVars, execution_stats, success_rates>>

DetectorTick ==
    /\ detectorClock < MaxDetectorTicks * TickSeconds
    /\ detectorClock' = detectorClock + TickSeconds
    /\ UNCHANGED <<detected_opportunities, blacklisted_opportunities,
                   total_detected, detectorReturn, update_pass, lifecycleVars, execution_stats, success_rates>>

\* AdvancedAnalytics.update_performance_metrics, the body of the coroutine:
\* the success rates after it ran, in thousandths.  A type not yet recorded
\* starts from 0.
UpdatePerformanceMetrics(rates, strategy_type, success) ==
    LET current_rate == IF strategy_type \in DOMAIN rates
                        THEN rates[strategy_type] ELSE 0
        updated == (current_rate * 9 + (IF success THEN 1000 ELSE 0)) \div 10
    IN [ty \in DOMAIN rates \cup {strategy_type} |->
           IF ty = strategy_type THEN updated ELSE rates[ty]]

\* _calculate_execution_probability, in thousandths: the mean of the
\* success rate of the type (0.5 if none is recorded), the market
\* conditions (0.7), the gas stability (0.8) and the liquidity (0.9).
CalculateExecutionProbability(rates, strategy_type) ==
    LET success_rate == IF strategy_type \in DOMAIN rates
                        THEN rates[strategy_type] ELSE 500
    IN (success_rate + 700 + 800 + 900) \div 4

\* An id that no detection gets.
UnknownId == <<"unknown", "none", 0>>

\* record_execution_result(opportunity_id, success, profit).  The method is
\* a plain function and calls the coroutine function
\* update_performance_metrics without awaiting it: the call builds a
\* coroutine object that is dropped, and the body never runs.
RecordExecutionResult(opportunity_id, success) ==
    /\ execution_stats.total_executed < MaxExecuted
    /\ execution_stats' =
           [total_executed |-> execution_stats.total_executed + 1,
            total_profitable |-> execution_stats.total_profitable
                                 + (IF success THEN 1 ELSE 0),
            false_positives |-> execution_stats.false_positives
                                + (IF success THEN 0 ELSE 1)]
    /\ detectorReturn' =
           [op |-> "record", id |-> opportunity_id, success |-> success,
            in_store |-> opportunity_id \in Ids(detected_opportunities)]
    /\ UNCHANGED <<success_rates, detected_opportunities,
                   blacklisted_opportunities, total_detected, detectorClock,
                   update_pass, lifecycleVars>>

\* The event loop runs one coroutine at a time and goes over to another
\* one only where the running one suspends at an await.  While an update
\* pass is under way and has not suspended, nothing else runs.
LoopFree == IF update_pass.at = "idle" THEN TRUE ELSE update_pass.suspended

\* _detection_loop, task t, calling _update_detected_opportunities with the
\* opportunities scored in this cycle.
UpdateEnter(t, list) ==
    /\ update_pass.at = "idle"
    /\ t \in 1..Len(tasks)
    /\ tasks[t] = "running"
    /\ is_running
    /\ total_detected + Len(list) <= MaxDetected
    /\ update_pass' =
           [at |-> "insert", task |-> t, detections |-> list,
            new_opportunities |-> ScoreOpportunities(list, detectorClock),
            inserted |-> 0, suspended |-> FALSE]
    /\ UNCHANGED <<detected_opportunities, blacklisted_opportunities,
                   total_detected, detectorClock, detectorReturn, lifecycleVars, execution_stats, success_rates>>

\* The insertion loop with an await in its body: the pass suspends after
\* each insertion.
UpdateInsertSuspends ==
    /\ update_pass.at = "insert"
    /\ update_pass.inserted < Len(update_pass.new_opportunities)
    /\ detected_opportunities' =
           DictSet(detected_opportunities,
                   update_pass.new_opportunities[update_pass.inserted + 1])
    /\ update_pass' = [update_pass EXCEPT !.inserted = @ + 1,
                                          !.suspended = TRUE]
    /\ UNCHANGED <<blacklisted_opportunities, total_detected, detectorClock,
                   detectorReturn, lifecycleVars, execution_stats, success_rates>>

\* _update_detected_opportunities, one turn of the insertion loop.  There
\* is no await in the body of the coroutine: the pass does not suspend.
UpdateInsert ==
    /\ update_pass.at = "insert"
    /\ update_pass.inserted < Len(update_pass.new_opportunities)
    /\ detected_opportunities' =
           DictSet(detected_opportunities,
                   update_pass.new_opportunities[update_pass.inserted + 1])
    /\ update_pass' = [update_pass EXCEPT !.inserted = @ + 1,
                                          !.suspended = FALSE]
    /\ UNCHANGED <<blacklisted_opportunities, total_detected, detectorClock,
                   detectorReturn, lifecycleVars, execution_stats, success_rates>>

\* _update_detected_opportunities after the insertion loop: the stale ids
\* are collected and deleted, the statistics updated, and the pass returns.
UpdateEvict ==
    /\ update_pass.at = "insert"
    /\ update_pass.inserted = Len(update_pass.new_opportunities)
    /\ LET stale_ids == StaleIds(detected_opportunities, detectorClock) IN
       /\ detected_opportunities' = DictDelete(detected_opportunities, stale_ids)
       /\ detectorReturn' =
              [op |-> "update", task |-> update_pass.task,
               detections |-> update_pass.detections,
               new_opportunities |-> update_pass.new_opportunities,
               current_time |-> detectorClock, stale_ids |-> stale_ids]
    /\ total_detected' = total_detected + Len(update_pass.new_opportunities)
    /\ update_pass' = [at |-> "idle"]
    /\ UNCHANGED <<blacklisted_opportunities, detectorClock, lifecycleVars, execution_stats, success_rates>>

\* A caller's get_best_opportunities(limit), run when the event loop gets
\* to it.
GetBestWhenScheduled(limit) ==
    /\ LoopFree
    /\ GetBestOpportunities(limit)

\* The batches of a cycle while the update pass is taken statement by
\* statement: one detection, or two.
BatchLists == {<<1>>, <<1, 2>>, <<2, 3>>}

\* The number of start() calls that are past the guard and have not yet
\* created their task.
StartsInFlight ==
    Cardinality({c \in Callers : callerPc[c].at \in {"start_feed", "start_scanner"}})

\* start() entered without the test of _is_running.
StartBeginUnguarded(c) ==
    /\ callerPc[c].at = "idle"
    /\ Len(tasks) + StartsInFlight < MaxTasks
    /\ is_running' = TRUE
    /\ callerPc' = [callerPc EXCEPT ![c] = [at |-> "start_feed"]]
    /\ UNCHANGED <<detection_task, tasks, market_feed, tx_scanner,
                   callerReturn, storeVars>>

\* start(), up to its first await: return at once if running, else set the
\* flag and go on to start the market feed.
StartBegin(c) ==
    /\ callerPc[c].at = "idle"
    /\ IF is_running
       THEN /\ callerReturn' = [callerReturn EXCEPT ![c] = "already_running"]
            /\ UNCHANGED <<is_running, callerPc>>
       ELSE /\ Len(tasks) + StartsInFlight < MaxTasks
            /\ is_running' = TRUE
            /\ callerPc' = [callerPc EXCEPT ![c] = [at |-> "start_feed"]]
            /\ UNCHANGED callerReturn
    /\ UNCHANGED <<detection_task, tasks, market_feed, tx_scanner, storeVars>>

\* start(): await self._market_feed.start().  If it raises, so does start().
StartMarketFeed(c, ok) ==
    /\ callerPc[c].at = "start_feed"
    /\ IF ok
       THEN /\ market_feed' = "started"
            /\ callerPc' = [callerPc EXCEPT ![c] = [at |-> "start_scanner"]]
            /\ UNCHANGED callerReturn
       ELSE /\ callerPc' = [callerPc EXCEPT ![c] = [at |-> "idle"]]
            /\ callerReturn' = [callerReturn EXCEPT ![c] = "raised"]
            /\ UNCHANGED market_feed
    /\ UNCHANGED <<is_running, detection_task, tasks, tx_scanner, storeVars>>

\* start(): await self._tx_scanner.start(), then create the loop task.
StartTxScanner(c, ok) ==
    /\ callerPc[c].at = "start_scanner"
    /\ callerPc' = [callerPc EXCEPT ![c] = [at |-> "idle"]]
    /\ IF ok
       THEN /\ tx_scanner' = "started"
            /\ tasks' = Append(tasks, "running")
            /\ detection_task' = Len(tasks) + 1
            /\ callerReturn' = [callerReturn EXCEPT ![c] = "started"]
       ELSE /\ callerReturn' = [callerReturn EXCEPT ![c] = "raised"]
            /\ UNCHANGED <<tx_scanner, tasks, detection_task>>
    /\ UNCHANGED <<is_running, market_feed, storeVars>>

\* stop(), up to its first await: return at once if not running, else
\* clear the flag and cancel the loop task, if there is one.
StopBegin(c) ==
    /\ callerPc[c].at = "idle"
    /\ IF ~is_running
       THEN /\ callerReturn' = [callerReturn EXCEPT ![c] = "not_running"]
            /\ UNCHANGED <<is_running, tasks, callerPc>>
       ELSE /\ is_running' = FALSE
            /\ UNCHANGED callerReturn
            /\ IF detection_task # 0
               THEN /\ tasks' = [tasks EXCEPT ![detection_task] =
                                    IF @ \in {"running", "backoff"}
                                    THEN "cancelling" ELSE @]
                    /\ callerPc' = [callerPc EXCEPT ![c] =
                                       [at |-> "stop_await", task |-> detection_task]]
               ELSE /\ callerPc' = [callerPc EXCEPT ![c] =
                                       [at |-> "stop_feed", task |-> 0]]
                    /\ UNCHANGED tasks
    /\ UNCHANGED <<detection_task, market_feed, tx_scanner, storeVars>>

\* The loop task gets CancelledError at its await and ends.
TaskCancelled(t) ==
    /\ t \in 1..Len(tasks)
    /\ tasks[t] = "cancelling"
    /\ tasks' = [tasks EXCEPT ![t] = "done"]
    /\ UNCHANGED <<is_running, detection_task, market_feed, tx_scanner,
                   callerPc, callerReturn, storeVars>>

\* The loop task finds _is_running false at the head of the loop and ends.
LoopExit(t) ==
    /\ t \in 1..Len(tasks)
    /\ tasks[t] = "running"
    /\ ~is_running
    /\ tasks' = [tasks EXCEPT ![t] = "done"]
    /\ UNCHANGED <<is_running, detection_task, market_feed, tx_scanner,
                   callerPc, callerReturn, storeVars>>

\* A cycle of _detection_loop in which an exception ends the task.
CycleRaisesEndsLoop(t) ==
    /\ t \in 1..Len(tasks)
    /\ tasks[t] = "running"
    /\ tasks' = [tasks EXCEPT ![t] = "done"]
    /\ detectorReturn' = [op |-> "cycle_error", task |-> t]
    /\ UNCHANGED <<is_running, detection_task, market_feed, tx_scanner,
                   callerPc, callerReturn, detected_opportunities,
                   blacklisted_opportunities, total_detected, detectorClock,
                   update_pass, execution_stats, success_rates>>

\* A cycle of _detection_loop raises an Exception: the handler logs it and
\* awaits the backoff sleep.
CycleRaises(t) ==
    /\ t \in 1..Len(tasks)
    /\ tasks[t] = "running"
    /\ tasks' = [tasks EXCEPT ![t] = "backoff"]
    /\ detectorReturn' = [op |-> "cycle_error", task |-> t]
    /\ UNCHANGED <<is_running, detection_task, market_feed, tx_scanner,
                   callerPc, callerReturn, detected_opportunities,
                   blacklisted_opportunities, total_detected, detectorClock,
                   update_pass, execution_stats, success_rates>>

\* The backoff sleep returns and the loop tests _is_running: the body is
\* entered again, or the task ends.
BackoffDone(t) ==
    /\ t \in 1..Len(tasks)
    /\ tasks[t] = "backoff"
    /\ tasks' = [tasks EXCEPT ![t] = IF is_running THEN "running" ELSE "done"]
    /\ UNCHANGED <<is_running, detection_task, market_feed, tx_scanner,
                   callerPc, callerReturn, storeVars>>

\* stop() going on after cancel() without awaiting the task.
StopAwaitTaskNoWait(c) ==
    /\ callerPc[c].at = "stop_await"
    /\ callerPc' = [callerPc EXCEPT ![c] = [@ EXCEPT !.at = "stop_feed"]]
    /\ UNCHANGED <<is_running, detection_task, tasks, market_feed, tx_scanner,
                   callerReturn, storeVars>>

\* stop(): await self._detection_task returns once the task has ended.  The
\* call keeps the task it cancelled (0 if there was none) until it returns.
StopAwaitTask(c) ==
    /\ callerPc[c].at = "stop_await"
    /\ tasks[callerPc[c].task] = "done"
    /\ callerPc' = [callerPc EXCEPT ![c] = [@ EXCEPT !.at = "stop_feed"]]
    /\ UNCHANGED <<is_running, detection_task, tasks, market_feed, tx_scanner,
                   callerReturn, storeVars>>

\* stop(): await self._market_feed.stop().
StopMarketFeed(c) ==
    /\ callerPc[c].at = "stop_feed"
    /\ market_feed' = "stopped"
    /\ callerPc' = [callerPc EXCEPT ![c] = [@ EXCEPT !.at = "stop_scanner"]]
    /\ UNCHANGED <<is_running, detection_task, tasks, tx_scanner,
                   callerReturn, storeVars>>

\* stop(): await self._tx_scanner.stop(), and return.
StopTxScanner(c) ==
    /\ callerPc[c].at = "stop_scanner"
    /\ tx_scanner' = "stopped"
    /\ callerPc' = [callerPc EXCEPT ![c] = [at |-> "idle"]]
    /\ callerReturn' = [callerReturn EXCEPT ![c] = "stopped"]
    /\ UNCHANGED <<is_running, detection_task, tasks, market_feed, storeVars>>

\* The detections of a cycle while start() and stop() are under study.
FewDetectionLists == {<< >>, <<1>>}

(***************************************************************************)
(* Specifications                                                          *)
(***************************************************************************)

\* The relay and the sniper act; the optimizer and the detector are idle.
RelayNext ==
    \/ RelayStart /\ UNCHANGED <<profitVars, detectorVars>>
    \/ RelayStop /\ UNCHANGED <<profitVars, detectorVars>>
    \/ /\ \E b \in Bundles, resp \in SimResponses : SimulateBundle(b, resp)
       /\ UNCHANGED <<profitVars, detectorVars>>
    \/ /\ \E b \in Bundles, s \in BOOLEAN, resp \in SubmitResponses :
              SubmitBundle(b, s, resp)
       /\ UNCHANGED <<profitVars, detectorVars>>
    \/ /\ \E b \in Bundles, ok \in BOOLEAN : CheckRiskControls(b, ok)
       /\ UNCHANGED <<profitVars, detectorVars>>
    \/ /\ \E liq \in Borrowers : ExecuteLiquidation(liq)
       /\ UNCHANGED <<profitVars, detectorVars>>
    \/ RelayTick /\ UNCHANGED <<profitVars, detectorVars>>

\* A relay just constructed; no profit call; a detector just constructed.
RelaySpecInit == RelayInit /\ ProfitIdle /\ DetectorInit

SpecRelay == RelaySpecInit /\ [][RelayNext]_vars

\* The relay's tracking of submitted bundles: submissions and clean-up
\* passes as time goes by.
TrackingNext ==
    \/ RelayStart /\ UNCHANGED <<profitVars, detectorVars>>
    \/ RelayStop /\ UNCHANGED <<profitVars, detectorVars>>
    \/ /\ \E b \in Bundles, s \in BOOLEAN, resp \in SubmitResponses :
              SubmitBundle(b, s, resp)
       /\ UNCHANGED <<profitVars, detectorVars>>
    \/ CleanupExpiredBundles /\ UNCHANGED <<profitVars, detectorVars>>
    \/ TrackingTick /\ UNCHANGED <<profitVars, detectorVars>>

\* A relay just constructed; no profit call; a detector just constructed.
TrackingSpecInit == RelayInit /\ ProfitIdle /\ DetectorInit

SpecTracking == TrackingSpecInit /\ [][TrackingNext]_vars

\* The relay's statistics: submissions, single status polls and monitoring.
StatisticsNext ==
    \/ RelayStart /\ UNCHANGED <<profitVars, detectorVars>>
    \/ RelayStop /\ UNCHANGED <<profitVars, detectorVars>>
    \/ /\ \E b \in Bundles, s \in BOOLEAN, resp \in SubmitResponses :
              SubmitBundle(b, s, resp)
       /\ UNCHANGED <<profitVars, detectorVars>>
    \/ /\ \E resp \in StatusResponses : GetBundleStatus(resp)
       /\ UNCHANGED <<profitVars, detectorVars>>
    \/ /\ \E timeout_blocks \in 0..MaxTimeoutBlocks :
              \E responses \in [1..timeout_blocks -> StatusResponses] :
                  MonitorBundleInclusion(timeout_blocks, responses, "ok",
                                         timeout_blocks)
       /\ UNCHANGED <<profitVars, detectorVars>>

\* A relay just constructed; no profit call; a detector just constructed.
StatisticsSpecInit == RelayInit /\ ProfitIdle /\ DetectorInit

SpecStatistics == StatisticsSpecInit /\ [][StatisticsNext]_vars

\* The relay's monitoring of a bundle: the status polls of
\* monitor_bundle_inclusion, with the session open or not.
MonitorNext ==
    \/ RelayStart /\ UNCHANGED <<profitVars, detectorVars>>
    \/ RelayStop /\ UNCHANGED <<profitVars, detectorVars>>
    \/ /\ \E timeout_blocks \in 0..MaxTimeoutBlocks :
              \E responses \in [1..timeout_blocks -> StatusResponses],
                 blockReads \in BlockNumberReads,
                 blocks \in {0, timeout_blocks} :
                  MonitorBundleInclusion(timeout_blocks, responses, blockReads,
                                         blocks)
       /\ UNCHANGED <<profitVars, detectorVars>>

\* A relay just constructed; no profit call; a detector just constructed.
MonitorSpecInit == RelayInit /\ ProfitIdle /\ DetectorInit

SpecMonitor == MonitorSpecInit /\ [][MonitorNext]_vars

\* The call under study is applied to its arguments.
ProfitNext ==
    \/ AnalyzeProfitability /\ UNCHANGED <<relayVars, detectorVars>>
    \/ IsProfitableTradeCall /\ UNCHANGED <<relayVars, detectorVars>>
    \/ CalculateProfitScoreCall /\ UNCHANGED <<relayVars, detectorVars>>
    \/ GetOpportunityWeightsCall /\ UNCHANGED <<relayVars, detectorVars>>
    \/ SelectStrategyCall /\ UNCHANGED <<relayVars, detectorVars>>
    \/ ScoreOpportunityCall /\ UNCHANGED <<relayVars, detectorVars>>
    \/ CombineSubScoresCall /\ UNCHANGED <<relayVars, detectorVars>>
    \/ CalculateGasEfficiencyScoreCall /\ UNCHANGED <<relayVars, detectorVars>>
    \/ GetStrategyConfidenceCall /\ UNCHANGED <<relayVars, detectorVars>>

\* A profit call with its arguments drawn.
ProfitSpecInit == RelayInit /\ ProfitInit /\ DetectorInit

SpecProfit == ProfitSpecInit /\ [][ProfitNext]_vars

\* The detection half of a cycle: the strategy detectors run, then what
\* they found is scored.
DetectNext ==
    \/ DetectAllOpportunitiesCall /\ UNCHANGED <<relayVars, detectorVars>>
    \/ ScoreDetectedCall /\ UNCHANGED <<relayVars, detectorVars>>

\* The runs of the strategy detectors drawn.
DetectSpecInit ==
    /\ RelayInit
    /\ DetectorInit
    /\ gas_price_history = << >>
    /\ optimization_stats = [total_analyses |-> 0, profitable_opportunities |-> 0]
    /\ profitCall \in DetectCalls
    /\ profitReturn = [op |-> "none"]

SpecDetect == DetectSpecInit /\ [][DetectNext]_vars

\* The running detector: the loop, and the calls on the store.
StoreNext ==
    \/ /\ \E t \in 1..MaxTasks, list \in DetectionLists : DetectionCycle(t, list)
       /\ UNCHANGED <<relayVars, profitVars>>
    \/ /\ \E id \in Ids(detected_opportunities) : BlacklistOpportunity(id)
       /\ UNCHANGED <<relayVars, profitVars>>
    \/ /\ \E limit \in 0..MaxLimit : GetBestOpportunities(limit)
       /\ UNCHANGED <<relayVars, profitVars>>
    \/ DetectorTick /\ UNCHANGED <<relayVars, profitVars>>

\* A detector that was started, with an empty store.
StoreSpecInit == RelayInit /\ ProfitIdle /\ DetectorRunning

SpecStore == StoreSpecInit /\ [][StoreNext]_vars

\* The store with executions reported back to the detector.
ExecutionNext ==
    \/ /\ \E t \in 1..MaxTasks, list \in BatchLists : DetectionCycle(t, list)
       /\ UNCHANGED <<relayVars, profitVars>>
    \/ /\ \E id \in Ids(detected_opportunities) \cup {UnknownId},
             success \in BOOLEAN : RecordExecutionResult(id, success)
       /\ UNCHANGED <<relayVars, profitVars>>
    \/ DetectorTick /\ UNCHANGED <<relayVars, profitVars>>

\* A detector that was started, with an empty store.
ExecutionSpecInit == RelayInit /\ ProfitIdle /\ DetectorRunning

SpecExecution == ExecutionSpecInit /\ [][ExecutionNext]_vars

\* The update pass statement by statement, with callers of
\* get_best_opportunities on the same event loop.
SnapshotNext ==
    \/ /\ \E t \in 1..MaxTasks, list \in BatchLists : UpdateEnter(t, list)
       /\ UNCHANGED <<relayVars, profitVars>>
    \/ UpdateInsert /\ UNCHANGED <<relayVars, profitVars>>
    \/ UpdateEvict /\ UNCHANGED <<relayVars, profitVars>>
    \/ /\ \E limit \in 0..MaxLimit : GetBestWhenScheduled(limit)
       /\ UNCHANGED <<relayVars, profitVars>>
    \/ DetectorTick /\ UNCHANGED <<relayVars, profitVars>>

\* A detector that was started, with an empty store.
SnapshotSpecInit == RelayInit /\ ProfitIdle /\ DetectorRunning

SpecSnapshot == SnapshotSpecInit /\ [][SnapshotNext]_vars

\* The life cycle of the detector: start(), stop() and the loop task.
DetectorNext ==
    \/ /\ \E c \in Callers : StartBegin(c)
       /\ UNCHANGED <<relayVars, profitVars>>
    \/ /\ \E c \in Callers, ok \in BOOLEAN : StartMarketFeed(c, ok)
       /\ UNCHANGED <<relayVars, profitVars>>
    \/ /\ \E c \in Callers, ok \in BOOLEAN : StartTxScanner(c, ok)
       /\ UNCHANGED <<relayVars, profitVars>>
    \/ /\ \E c \in Callers : StopBegin(c)
       /\ UNCHANGED <<relayVars, profitVars>>
    \/ /\ \E t \in 1..MaxTasks : TaskCancelled(t)
       /\ UNCHANGED <<relayVars, profitVars>>
    \/ /\ \E t \in 1..MaxTasks : LoopExit(t)
       /\ UNCHANGED <<relayVars, profitVars>>
    \/ /\ \E c \in Callers : StopAwaitTask(c)
       /\ UNCHANGED <<relayVars, profitVars>>
    \/ /\ \E c \in Callers : StopMarketFeed(c)
       /\ UNCHANGED <<relayVars, profitVars>>
    \/ /\ \E c \in Callers : StopTxScanner(c)
       /\ UNCHANGED <<relayVars, profitVars>>
    \/ /\ \E t \in 1..MaxTasks, list \in FewDetectionLists :
              DetectionCycle(t, list)
       /\ UNCHANGED <<relayVars, profitVars>>
    \/ /\ \E t \in 1..MaxTasks : CycleRaises(t)
       /\ UNCHANGED <<relayVars, profitVars>>
    \/ /\ \E t \in 1..MaxTasks : BackoffDone(t)
       /\ UNCHANGED <<relayVars, profitVars>>

\* A detector just constructed.
DetectorSpecInit == RelayInit /\ ProfitIdle /\ DetectorInit

SpecDetector == DetectorSpecInit /\ [][DetectorNext]_vars

\* The life cycle of the detector with cycles that detect nothing: what the
\* loop task does between start() and stop().
LoopNext ==
    \/ /\ \E c \in Callers : StartBegin(c)
       /\ UNCHANGED <<relayVars, profitVars>>
    \/ /\ \E c \in Callers, ok \in BOOLEAN : StartMarketFeed(c, ok)
       /\ UNCHANGED <<relayVars, profitVars>>
    \/ /\ \E c \in Callers, ok \in BOOLEAN : StartTxScanner(c, ok)
       /\ UNCHANGED <<relayVars, profitVars>>
    \/ /\ \E c \in Callers : StopBegin(c)
       /\ UNCHANGED <<relayVars, profitVars>>
    \/ /\ \E t \in 1..MaxTasks : TaskCancelled(t)
       /\ UNCHANGED <<relayVars, profitVars>>
    \/ /\ \E t \in 1..MaxTasks : LoopExit(t)
       /\ UNCHANGED <<relayVars, profitVars>>
    \/ /\ \E c \in Callers : StopAwaitTask(c)
       /\ UNCHANGED <<relayVars, profitVars>>
    \/ /\ \E c \in Callers : StopMarketFeed(c)
       /\ UNCHANGED <<relayVars, profitVars>>
    \/ /\ \E c \in Callers : StopTxScanner(c)
       /\ UNCHANGED <<relayVars, profitVars>>
    \/ /\ \E t \in 1..MaxTasks : DetectionCycle(t, << >>)
       /\ UNCHANGED <<relayVars, profitVars>>
    \/ /\ \E t \in 1..MaxTasks : CycleRaises(t)
       /\ UNCHANGED <<relayVars, profitVars>>
    \/ /\ \E t \in 1..MaxTasks : BackoffDone(t)
       /\ UNCHANGED <<relayVars, profitVars>>

\* A detector just constructed.
LoopSpecInit == RelayInit /\ ProfitIdle /\ DetectorInit

\* The life cycle with the event loop's timer: a backoff sleep that stays
\* pending is completed.
SpecDetectorFair ==
    /\ LoopSpecInit
    /\ [][LoopNext]_vars
    /\ \A t \in 1..MaxTasks :
           WF_vars(BackoffDone(t) /\ UNCHANGED <<relayVars, profitVars>>)

(***************************************************************************)
(* Claims on the relay and the sniper                                      *)
(***************************************************************************)

\* C1: every bundle sent to the relay with eth_sendBundle was, before that,
\* simulated with simulate_bundle returning success and estimated_profit >= 0.
C1_SubmitOnlyAfterSimulation ==
    \A s \in sentBundles : s.simulated

\* C2: check_risk_controls is consulted before every submission and a bundle
\* whose latest answer was is_safe = false is never sent.
C2_SubmitOnlyAfterRiskCheck ==
    \A s \in sentBundles : s.safe

(***************************************************************************)
(* Claims about ProfitOptimizer and the profit sub-score (SpecProfit)      *)
(***************************************************************************)

\* The gas cost of the estimated gas at the recommended gas price (whole
\* gwei), and the net profit after it, of a returned analysis.
CostAtRecommendedPrice ==
    GasCostEth(profitReturn.gas_estimate,
               profitReturn.analysis.recommended_gas_price_gwei * 10)

NetAtRecommendedPrice ==
    profitCall.opportunity.expected_profit_eth - CostAtRecommendedPrice

\* An analysis in which no step took an except branch.
AnalysisWithoutError ==
    /\ profitReturn.op = "analyze"
    /\ profitCall.simOutcome # "raise"
    /\ ~profitCall.gasPrice.raises
    /\ profitCall.opportunity.wellFormed
    /\ ~profitReturn.finalizeRaised

\* C3: the analysis returned by analyze_profitability is profitable exactly
\* when the simulation succeeded, the net profit (gross minus the cost of the
\* estimated gas at the recommended gas price) is at least the minimum-profit
\* floor, and net / input amount x 100 is at least the minimum ROI (5%).
C3_ProfitableIffFloorsMet ==
    AnalysisWithoutError =>
        (profitReturn.analysis.profitable <=>
            /\ profitCall.simOutcome = "ok"
            /\ NetAtRecommendedPrice >= MinProfitEth
            /\ RoiAtLeast(NetAtRecommendedPrice, profitCall.opportunity.amount_in,
                          MinRoiPercentage))

\* C4: when the net profit (gross minus gas cost) is <= 0 the profit
\* sub-score is 0, analyze_profitability does not say profitable, and
\* is_profitable_trade returns false whatever the threshold.
C4_NoProfitNoVerdict ==
    /\ (/\ profitReturn.op = "score"
        /\ profitCall.expected_profit - profitCall.gas_estimate <= 0)
           => profitReturn.result = 0
    /\ (/\ profitReturn.op = "trade"
        /\ profitCall.output_amt - profitCall.input_amt
              - profitCall.gas_cost_eth <= 0)
           => ~profitReturn.result
    /\ (AnalysisWithoutError /\ NetAtRecommendedPrice <= 0)
           => ~profitReturn.analysis.profitable

C6_GasPriceErrorFailsClosed ==
    (profitReturn.op = "analyze" /\ profitCall.gasPrice.raises)
        => ~profitReturn.analysis.profitable

(***************************************************************************)
(* Claims about the opportunity store (SpecStore)                          *)
(***************************************************************************)

Entries(dict) == {dict[k] : k \in 1..Len(dict)}

\* C7: get_best_opportunities(limit) returns at most limit opportunities,
\* none with a blacklisted id, each with expected profit and confidence at
\* least the minimum, in non-increasing order of profit x confidence.
C7_BestOpportunities ==
    detectorReturn.op = "get_best" =>
        LET result == detectorReturn.result IN
        /\ Len(result) <= detectorReturn.limit
        /\ \A k \in 1..Len(result) :
               /\ result[k].id \notin blacklisted_opportunities
               /\ result[k].expected_profit_eth >= MinProfitEth
               /\ result[k].confidence_score >= MinConfidenceScore
               /\ result[k] \in Entries(detected_opportunities)
        /\ \A k \in 1..(Len(result) - 1) :
               PriorityScore(result[k]) >= PriorityScore(result[k + 1])

\* C7 witness: the store held three opportunities; get_best_opportunities(2)
\* returned two of them, the one with the larger profit x confidence first
\* although the store holds it after the other.
C7_TwoBestReturned ==
    /\ detectorReturn.op = "get_best"
    /\ detectorReturn.limit = 2
    /\ Len(detectorReturn.result) = 2
    /\ PriorityScore(detectorReturn.result[1]) > PriorityScore(detectorReturn.result[2])
    /\ Len(detected_opportunities) = 3
    /\ detected_opportunities[1] = detectorReturn.result[2]

\* C8: an opportunity whose id was blacklisted is not in the store, whatever
\* update passes followed the call of blacklist_opportunity.
C8_BlacklistedStayOut ==
    \A k \in 1..Len(detected_opportunities) :
        detected_opportunities[k].id \notin blacklisted_opportunities

\* C9: right after an update pass, no opportunity of the store is older than
\* 300 seconds, and every opportunity that was in the store or in the new
\* batch, is not blacklisted and is at most 300 seconds old is in the store.
C9_StalenessEviction ==
    [][(detectorReturn' # detectorReturn /\ detectorReturn'.op = "update") =>
        LET now == detectorReturn'.current_time IN
        /\ \A opp \in Entries(detected_opportunities') :
               now - opp.timestamp <= StaleAfterSeconds
        /\ \A opp \in Entries(detected_opportunities)
                        \cup Entries(detectorReturn'.new_opportunities) :
               (/\ now - opp.timestamp <= StaleAfterSeconds
                /\ opp.id \notin blacklisted_opportunities)
                   => opp.id \in Ids(detected_opportunities')]_vars

\* C9 witness: an update pass evicted an opportunity and kept one whose age
\* was exactly 300 seconds.
C9_EvictedAndRetained ==
    /\ detectorReturn.op = "update"
    /\ detectorReturn.stale_ids # {}
    /\ \E opp \in Entries(detected_opportunities) :
           detectorReturn.current_time - opp.timestamp = StaleAfterSeconds

(***************************************************************************)
(* Claims about the detector's life cycle (SpecDetector)                   *)
(***************************************************************************)

\* C10: a start() called while the detector is running returns at once: it
\* does not go on to start the collaborators or create a task, and it leaves
\* the flag, the task, the collaborators and the store as they were.
C10_StartIdempotent ==
    [][\A c \in Callers :
        /\ (is_running /\ callerPc[c].at = "idle")
               => callerPc'[c].at # "start_feed"
        /\ (callerReturn'[c] = "already_running" /\ callerReturn[c] # "already_running")
               => UNCHANGED <<is_running, detection_task, tasks, market_feed,
                              tx_scanner, callerPc, storeVars>>]_vars

\* C10 witness: after a start() that went through, a second start() returned
\* at once; there is one task, and it is running.
C10_SecondStartReturned ==
    /\ \E c \in Callers : callerReturn[c] = "already_running"
    /\ \E c \in Callers : callerReturn[c] = "started"
    /\ is_running
    /\ tasks = <<"running">>
    /\ detection_task = 1
    /\ market_feed = "started"
    /\ tx_scanner = "started"

\* The store or the statistics changed in this step.
StoreUpdated ==
    \/ detected_opportunities' # detected_opportunities
    \/ total_detected' # total_detected

\* C11: a stop() that found the detector running has cancelled the task it
\* awaits; it goes on to stop the market feed and the scanner, and returns,
\* only when that task has ended; a task that has ended stays so; and the
\* store and the statistics are changed only by a cycle of a task that was
\* neither cancelled nor ended.
C11_StopAwaitsTask ==
    [][/\ \A c \in Callers :
            /\ callerPc[c].at = "stop_await"
                   => tasks[callerPc[c].task] \in {"cancelling", "done"}
            /\ (callerPc[c].at \in {"stop_feed", "stop_scanner"}
                    /\ callerPc[c].task # 0)
                   => tasks[callerPc[c].task] = "done"
            /\ (callerPc'[c].at \in {"stop_feed", "stop_scanner"}
                    /\ callerPc'[c].task # 0)
                   => tasks'[callerPc'[c].task] = "done"
       /\ \A t \in 1..Len(tasks) : tasks[t] = "done" => tasks'[t] = "done"
       /\ StoreUpdated
              => /\ detectorReturn'.op = "update"
                 /\ tasks[detectorReturn'.task] = "running"]_vars

\* C11 witness: a stop() returned after the task it cancelled had run a cycle
\* that detected something and had ended; both collaborators are stopped.
C11_StoppedAfterTaskEnded ==
    /\ \E c \in Callers : callerReturn[c] = "stopped"
    /\ ~is_running
    /\ tasks = <<"done">>
    /\ total_detected > 0
    /\ market_feed = "stopped"
    /\ tx_scanner = "stopped"

\* The state of task t; "none" before the task is created.
TaskState(t) == IF t \in 1..Len(tasks) THEN tasks[t] ELSE "none"

\* C12: a task whose cycle raised and that is in its backoff sleep gets out
\* of it: the loop body is entered again, unless the task was cancelled or
\* stop() cleared the flag meanwhile; and a task ends only after it was
\* cancelled or when stop() has cleared the flag.
C12_LoopSurvivesException ==
    /\ \A t \in 1..MaxTasks :
           [](TaskState(t) = "backoff"
                  => <>(TaskState(t) \in {"running", "cancelling", "done"}))
    /\ [][\A t \in 1..Len(tasks) :
            /\ tasks[t] = "backoff"
                   => tasks'[t] \in {"backoff", "cancelling",
                                     IF is_running THEN "running" ELSE "done"}
            /\ (tasks[t] # "done" /\ tasks'[t] = "done")
                   => (tasks[t] = "cancelling" \/ ~is_running)]_vars

\* C12 witness: the last thing the loop did was to raise in a cycle of the
\* task the detector refers to; that task is past its backoff and in the loop
\* again, and the detector is running.
C12_RunningAfterBackoff ==
    /\ is_running
    /\ detection_task # 0
    /\ detectorReturn = [op |-> "cycle_error", task |-> detection_task]
    /\ tasks[detection_task] = "running"

\* C13: when scoring a detection raises, its score is total 0, risk 1.0 and
\* confidence interval (0, 0); the update pass still records the opportunity,
\* with that score and confidence 0; and no opportunity with that score is
\* ever in the answer of get_best_opportunities.
C13_ScoringErrorFailsClosed ==
    [][/\ (detectorReturn'.op = "update" /\ total_detected' # total_detected)
              => LET list == detectorReturn'.detections
                     scored == detectorReturn'.new_opportunities
                 IN /\ Len(scored) = Len(list)
                    /\ \A k \in 1..Len(list) :
                           Detections[list[k]].scoring_raises
                               => /\ scored[k].analytics_score.total_score = 0
                                  /\ scored[k].analytics_score.risk_score = 100
                                  /\ scored[k].analytics_score.confidence_interval
                                         = <<0, 0>>
                                  /\ scored[k].confidence_score = 0
                                  /\ scored[k] \in Entries(detected_opportunities')
       /\ detectorReturn'.op = "get_best"
              => \A opp \in Entries(detectorReturn'.result) :
                     /\ opp.analytics_score # FailClosedScore
                     /\ opp.confidence_score >= MinConfidenceScore]_vars

\* C13 witness: the store holds an opportunity whose scoring raised, with
\* profit above the floor and not blacklisted, and a get_best_opportunities
\* with room for it answered without it.
C13_FailClosedStoredNotReturned ==
    /\ detectorReturn.op = "get_best"
    /\ detectorReturn.limit > Len(detectorReturn.result)
    /\ \E opp \in Entries(detected_opportunities) :
           /\ opp.analytics_score = FailClosedScore
           /\ opp.expected_profit_eth >= MinProfitEth
           /\ opp.id \notin blacklisted_opportunities

(***************************************************************************)
(* Claims about the scorer and the strategy selector (SpecProfit)          *)
(***************************************************************************)

\* The sum of the six weights of a weight vector, in hundredths.
WeightSum(weights) ==
    weights.profit + weights.risk + weights.execution + weights.market
        + weights.gas + weights.competition

\* C14: for every strategy type the six weights _get_opportunity_weights
\* returned sum to exactly 1.0.
C14_WeightsSumToOne ==
    profitReturn.op = "weights" => WeightSum(profitReturn.result) = 100

C20_WellFormedScoredNormally ==
    (/\ profitReturn.op = "score_opportunity"
     /\ profitCall.opportunity.numeric
     /\ profitCall.opportunity.type # "unknown")
        => profitReturn.result # FailClosedScore

(***************************************************************************)
(* Claims about simulation, submission and tracking in the relay           *)
(***************************************************************************)

\* C16: a simulate_bundle that returned success false returned gas_used 0
\* and estimated_profit 0 with it.
C16_FailedSimulationIsZero ==
    (relayReturn.op = "simulate" /\ ~relayReturn.success)
        => (relayReturn.gas_used = 0 /\ relayReturn.estimated_profit = 0)

\* C17: a submit_bundle that failed returned success false with an error
\* message, added exactly one to failed_submissions and left the pending map
\* and total_submissions as they were; a successful one left
\* failed_submissions alone; and a hash enters the pending map only in a
\* submit_bundle that returned success with that hash.
C17_FailedSubmissionContained ==
    [][/\ (relayReturn'.op = "submit" /\ submission_stats' # submission_stats)
              => IF relayReturn'.success
                 THEN /\ submission_stats'.failed_submissions
                             = submission_stats.failed_submissions
                      /\ relayReturn'.bundle_hash \in DOMAIN pending_bundles'
                 ELSE /\ relayReturn'.error
                      /\ submission_stats'.failed_submissions
                             = submission_stats.failed_submissions + 1
                      /\ submission_stats'.total_submissions
                             = submission_stats.total_submissions
                      /\ pending_bundles' = pending_bundles
       /\ \A h \in DOMAIN pending_bundles' :
              (h \notin DOMAIN pending_bundles
                   \/ pending_bundles'[h] # pending_bundles[h])
                  => /\ relayReturn'.op = "submit"
                     /\ relayReturn'.success
                     /\ relayReturn'.bundle_hash = h]_vars

\* C17 witness: a submission failed after another had succeeded: the failure
\* is counted once and the bundle tracked before is still the only one.
C17_FailureAfterSuccess ==
    /\ relayReturn.op = "submit"
    /\ ~relayReturn.success
    /\ relayReturn.error
    /\ submission_stats.failed_submissions = 1
    /\ submission_stats.total_submissions = 1
    /\ Cardinality(DOMAIN pending_bundles) = 1

C19_CleanupRemovesExpiredOnly ==
    [][(relayReturn'.op = "cleanup" /\ relayReturn'.current_time = relayClock
            /\ relayClock' = relayClock)
           => /\ \A h \in DOMAIN pending_bundles' :
                     relayClock - pending_bundles'[h].submission_time <= 12
              /\ \A h \in DOMAIN pending_bundles :
                     relayClock - pending_bundles[h].submission_time <= 12
                         => /\ h \in DOMAIN pending_bundles'
                            /\ pending_bundles'[h] = pending_bundles[h]]_vars

\* C19 witness: a clean-up pass removed a bundle and kept one that was
\* exactly 12 seconds old.
C19_ExpiredGoneBoundaryKept ==
    /\ relayReturn.op = "cleanup"
    /\ relayReturn.expired_bundles # {}
    /\ \E h \in DOMAIN pending_bundles :
           relayReturn.current_time - pending_bundles[h].submission_time = 12

C22_StopInReverseOrder ==
    [][\A c \in Callers :
           (callerPc[c].at = "stop_feed" /\ callerPc'[c].at # "stop_feed")
               => callerPc'[c].at = "idle"]_vars

C24_GetBestSeesWholePasses ==
    [][(detectorReturn' # detectorReturn /\ detectorReturn'.op = "get_best")
           => /\ update_pass.at = "idle"
              /\ detectorReturn'.result =
                     BestOpportunities(detected_opportunities,
                                       blacklisted_opportunities,
                                       detectorReturn'.limit)]_vars

\* A call returned between two passes: a batch of two was inserted whole
\* and a later pass evicted a stale record.
C24_ReadBetweenPasses ==
    /\ detectorReturn.op = "get_best"
    /\ update_pass.at = "idle"
    /\ total_detected = 3
    /\ Len(detected_opportunities) = 1
    /\ Len(detectorReturn.result) = 1

\* C25: record_execution_result for an opportunity in the store moves the
\* success rate of its strategy type to 0.9 x previous + 0.1 x outcome, and
\* the execution probability of the next scoring of that type is computed
\* from the new rate.
C25_SuccessRateUpdated ==
    [][(/\ execution_stats'.total_executed # execution_stats.total_executed
        /\ detectorReturn'.in_store)
           => LET strategy_type == detectorReturn'.id[1]
                  updated == UpdatePerformanceMetrics(success_rates, strategy_type,
                                                      detectorReturn'.success)
              IN /\ success_rates' = updated
                 /\ CalculateExecutionProbability(success_rates', strategy_type)
                        = (updated[strategy_type] + 700 + 800 + 900) \div 4]_vars

\* C26: for a gross profit > 0 and a gas cost >= 0 the gas-efficiency
\* sub-score is the step function of gas cost / gross profit: below 5% it is
\* 1.0, below 10% 0.8, below 20% 0.6, below 50% 0.3, otherwise 0; a gas cost
\* of zero gives 1.0.
C26_GasEfficiencySteps ==
    (/\ profitReturn.op = "gas_efficiency"
     /\ profitCall.expected_profit > 0
     /\ profitCall.gas_estimate >= 0)
        => LET gas == profitCall.gas_estimate
               profit == profitCall.expected_profit
           IN profitReturn.result =
                  (IF gas * 100 < 5 * profit THEN 1000
                   ELSE IF gas * 100 < 10 * profit THEN 800
                   ELSE IF gas * 100 < 20 * profit THEN 600
                   ELSE IF gas * 100 < 50 * profit THEN 300
                   ELSE 0)

\* C27: get_strategy_confidence is 0 for skip; for any other strategy it is
\* 0.5, plus 0.2 for gas below 30 or minus 0.2 for gas above 80, plus 0.2
\* for volatility below 5 or minus 0.2 above 15, plus 0.1 for a mempool rate
\* above 500, within [0, 1]; a field that is missing adds nothing.
C27_StrategyConfidence ==
    profitReturn.op = "confidence"
        => LET mc == profitCall.market_conditions
               Adjustment(key, low, high, up, down) ==
                   IF key \notin DOMAIN mc THEN 0
                   ELSE IF mc[key] < low THEN up
                   ELSE IF mc[key] > high THEN 0 - down
                   ELSE 0
               confidence ==
                   50 + Adjustment("gas_price_gwei", 30, 80, 20, 20)
                      + Adjustment("token_price_volatility", 5, 15, 20, 20)
                      + (IF "mempool_tx_rate" \in DOMAIN mc
                         THEN (IF mc["mempool_tx_rate"] > 500 THEN 10 ELSE 0)
                         ELSE 0)
           IN profitReturn.result =
                  (IF profitCall.strategy = "skip" THEN 0
                   ELSE IF confidence > 100 THEN 100
                   ELSE IF confidence < 0 THEN 0 ELSE confidence)

\* C28: under every interleaving of start() and stop() calls at most one
\* detection loop task is live, and a live task is the one the detector
\* refers to.
C28_SingleLiveTask ==
    LET live == {t \in 1..Len(tasks) : tasks[t] \in {"running", "backoff"}}
    IN /\ Cardinality(live) <= 1
       /\ \A t \in live : t = detection_task

\* C29: whenever no start() call is in progress, the running flag is true
\* only if a detection task has been created; a start() that failed in a
\* collaborator leaves the detector not running.
C29_RunningOnlyWithTask ==
    (StartsInFlight = 0 /\ is_running) => detection_task # 0

\* C30: after any sequence of submissions, status polls and monitoring
\* calls, successful_bundles is at most total_submissions: a bundle is
\* counted as successful at most once however often it is polled.
C30_SuccessfulWithinSubmitted ==
    submission_stats.successful_bundles <= submission_stats.total_submissions

====
